---------------------------- MODULE Spec2Model ----------------------------
(***************************************************************************)
(* Model of the federation core of global-schema-registry:                 *)
(*   src/core/plugin_registry.py  PluginRegistry                           *)
(*   src/core/orchestrator.py     MultiBackendOrchestrator                 *)
(*   src/plugins/confluent/plugin.py  register_schema, check_compatibility *)
(*   src/plugins/unity_catalog/plugin.py  register_schema, list_versions,  *)
(*                                        check_compatibility              *)
(*                                                                         *)
(* Python dicts keep insertion order, so a dict is modelled as a sequence  *)
(* of [id, inst] items; result dicts, whose order no caller relies on, are *)
(* functions.  A call on a backend either returns a value or raises an     *)
(* Exception: [raises |-> BOOLEAN, value |-> v].                           *)
(***************************************************************************)
EXTENDS Integers, Sequences, FiniteSets, TLC

VARIABLES
    plugins,            \* PluginRegistry._plugins: the registered type tags
    instances,          \* PluginRegistry._instances: id -> instance
    active_registries,  \* MultiBackendOrchestrator.active_registries (ordered)
    created,            \* number of plugin objects constructed so far
    fan,                \* the last orchestrator call: op, backend behaviour, outcome
    check,              \* the last _check_single_subject or plugin call
    bulk                \* the last bulk_check_compatibility or bulk_set_compatibility call

vars == <<plugins, instances, active_registries, created, fan, check, bulk>>

-----------------------------------------------------------------------------
(* Bounds of the model *)

MaxCreated == 3         \* plugin objects constructed in one behaviour
MaxVersions == 4        \* highest version number a subject may have
MaxRegistryIds == 3     \* length of the registry_ids argument of a bulk call
MaxMutations == 2       \* add_registry/remove_registry calls made during one fan-out call

-----------------------------------------------------------------------------
(* Universes *)

RegistryIds == {"r1", "r2", "r3"}
RegisteredTypes == {"confluent", "unity_catalog"}
RegistryTypes == RegisteredTypes \cup {"aws_glue"}
Subjects == {"s1", "s2"}
CompatibilityMode ==
    {"NONE", "BACKWARD", "BACKWARD_TRANSITIVE", "FORWARD", "FORWARD_TRANSITIVE",
     "FORWARD_FULL", "FULL", "FULL_TRANSITIVE"}

None == [none |-> TRUE]
NoCall == [op |-> "none"]

Returns(v) == [raises |-> FALSE, value |-> v]
Raises(e) == [raises |-> TRUE, value |-> e]

-----------------------------------------------------------------------------
(* Python dict helpers *)

\* d[k] = v on a result dict
Put(d, k, v) == [x \in DOMAIN d \cup {k} |-> IF x = k THEN v ELSE d[x]]

EmptyDict == [x \in {} |-> None]

\* keys of an ordered dict
Keys(items) == {items[i].id : i \in 1..Len(items)}

\* d.get(k) on an ordered dict
Get(items, k) ==
    IF k \in Keys(items)
    THEN items[CHOOSE i \in 1..Len(items) : items[i].id = k].inst
    ELSE None

\* d[k] = v on an ordered dict: an existing key keeps its position
DictSet(items, k, v) ==
    IF k \in Keys(items)
    THEN [i \in 1..Len(items) |->
            IF items[i].id = k THEN [id |-> k, inst |-> v] ELSE items[i]]
    ELSE Append(items, [id |-> k, inst |-> v])

\* del d[k] on an ordered dict
DictDel(items, k) == SelectSeq(items, LAMBDA it : it.id # k)

-----------------------------------------------------------------------------
(* PluginRegistry.create_instance and the orchestrator's map operations *)

\* the configs handed to add_registry: one registered type, one that is not
ConfigTypes == {"confluent", "aws_glue"}
RegistryConfigs == [id : RegistryIds, type : ConfigTypes]

\* an unknown type raises after the stored instance of that id is dropped
CreateInstanceDropsOnFailure(config, instance_id) ==
    IF config.type \notin plugins
    THEN [raises |-> TRUE, value |-> "No plugin registered",
          instances |-> [x \in DOMAIN instances \ {instance_id} |-> instances[x]],
          created |-> created]
    ELSE LET instance == [type |-> config.type, serial |-> created + 1]
         IN [raises |-> FALSE, value |-> instance,
             instances |-> IF instance_id # ""
                           THEN Put(instances, instance_id, instance)
                           ELSE instances,
             created |-> created + 1]

\* create_instance(config, instance_id): the value returned or raised, and
\* the registry's instance table and construction count afterwards
CreateInstance(config, instance_id) ==
    IF config.type \notin plugins
    THEN [raises |-> TRUE, value |-> "No plugin registered",
          instances |-> instances, created |-> created]
    ELSE LET instance == [type |-> config.type, serial |-> created + 1]
         IN [raises |-> FALSE, value |-> instance,
             instances |-> IF instance_id # ""
                           THEN Put(instances, instance_id, instance)
                           ELSE instances,
             created |-> created + 1]

\* an existing id keeps its instance
AddRegistryKeepsFirst(config) ==
    /\ created < MaxCreated
    /\ LET r == CreateInstance(config, config.id)
       IN /\ instances' = r.instances
          /\ created' = r.created
          /\ active_registries' =
                IF r.raises \/ config.id \in Keys(active_registries)
                THEN active_registries
                ELSE DictSet(active_registries, config.id, r.value)
          /\ fan' = [op |-> "add_registry", arg |-> config,
                     out |-> IF r.raises THEN Raises(r.value) ELSE Returns(None)]
    /\ UNCHANGED <<plugins, check, bulk>>

\* add_registry(config); the call and its outcome are kept in fan
AddRegistry(config) ==
    /\ created < MaxCreated
    /\ LET r == CreateInstance(config, config.id)
       IN /\ instances' = r.instances
          /\ created' = r.created
          /\ active_registries' =
                IF r.raises THEN active_registries
                ELSE DictSet(active_registries, config.id, r.value)
          /\ fan' = [op |-> "add_registry", arg |-> config,
                     out |-> IF r.raises THEN Raises(r.value) ELSE Returns(None)]
    /\ UNCHANGED <<plugins, check, bulk>>

\* remove_registry(instance_id); the call and its outcome are kept in fan
RemoveRegistry(instance_id) ==
    /\ active_registries' =
          IF instance_id \in Keys(active_registries)
          THEN DictDel(active_registries, instance_id)
          ELSE active_registries
    /\ fan' = [op |-> "remove_registry", arg |-> instance_id,
               out |-> Returns(None)]
    /\ UNCHANGED <<plugins, instances, created, check, bulk>>

-----------------------------------------------------------------------------
(* Cross-registry operations.  Each loop visits active_registries.items()  *)
(* in order; the body of each loop is a Step operator, which returns the   *)
(* results dict after the iteration or the exception that left it.         *)

MethodNames == {"list_subjects"}
Operations == MethodNames \cup {"no_such_method"}

\* method = getattr(registry, operation); result = method(**kwargs)
MethodCall(operation, outcome) ==
    IF operation \in MethodNames THEN outcome ELSE Raises("AttributeError")

\* an Exception raised inside the loop body and not caught there
QueryAllStepNoCatch(results, instance_id, outcome) ==
    IF outcome.raises
    THEN outcome
    ELSE Returns(Put(results, instance_id,
                     [status |-> "success", data |-> outcome.value]))

\* query_all: the try/except of one iteration
QueryAllStep(results, instance_id, outcome) ==
    IF outcome.raises
    THEN Returns(Put(results, instance_id,
                     [status |-> "error", error |-> outcome.value]))
    ELSE Returns(Put(results, instance_id,
                     [status |-> "success", data |-> outcome.value]))

HealthStatus(healthy, status_code, message, response_time_ms, metadata) ==
    [healthy |-> healthy, status_code |-> status_code, message |-> message,
     response_time_ms |-> response_time_ms, metadata |-> metadata]

HealthOutcomes ==
    {Raises("e1"),
     Returns(HealthStatus(TRUE, 200, <<"healthy">>, 5, [url |-> "u"])),
     Returns(HealthStatus(FALSE, 503, <<"Health check failed: ", "e503">>, 5,
                          [url |-> "u"]))}

\* a probe's exception leaves the loop
HealthCheckStepNoCatch(results, instance_id, outcome) ==
    IF outcome.raises
    THEN outcome
    ELSE Returns(Put(results, instance_id, outcome.value))

\* health_check_all: the try/except of one iteration
HealthCheckStep(results, instance_id, outcome) ==
    IF outcome.raises
    THEN Returns(Put(results, instance_id,
                     HealthStatus(FALSE, 0,
                                  <<"Health check exception: ", outcome.value>>,
                                  0, [error |-> outcome.value])))
    ELSE Returns(Put(results, instance_id, outcome.value))

Schema(subject, version) == [subject |-> subject, version |-> version]

\* get_latest_schema(subject) on one instance
LatestOutcomes(subject) ==
    {Raises("KeyError"), Returns(Schema(subject, 1))}

\* a failed lookup leaves an entry behind
FindSchemaStepErrorEntry(results, instance_id, outcome) ==
    IF outcome.raises
    THEN Returns(Put(results, instance_id, None))
    ELSE Returns(Put(results, instance_id, outcome.value))

\* find_schema_across_registries: the try/except of one iteration
FindSchemaStep(results, instance_id, outcome) ==
    IF outcome.raises
    THEN Returns(results)
    ELSE Returns(Put(results, instance_id, outcome.value))

\* CompatibilityMode.value: every member's value is its own name
ModeValue(mode) == mode

\* get_compatibility_mode() and get_all_compatibility_modes() on one instance
\* (the second call is only made when the first returned)
ModeOutcomes ==
    {[global |-> Raises("e_global"), all |-> NoCall],
     [global |-> Returns("FULL"), all |-> Raises("e_all")],
     [global |-> Returns("BACKWARD"),
      all |-> Returns([s \in {"s1"} |-> "FORWARD"])]}

\* only the first of the two calls is guarded
CompareModesStepHalfCaught(results, instance_id, outcome) ==
    IF outcome.global.raises
    THEN Returns(Put(results, instance_id, [error |-> outcome.global.value]))
    ELSE IF outcome.all.raises
    THEN outcome.all
    ELSE Returns(Put(results, instance_id,
            [global |-> ModeValue(outcome.global.value),
             subjects |-> [k \in DOMAIN outcome.all.value |->
                              ModeValue(outcome.all.value[k])]]))

\* compare_compatibility_modes: the try/except of one iteration
CompareModesStep(results, instance_id, outcome) ==
    IF outcome.global.raises
    THEN Returns(Put(results, instance_id, [error |-> outcome.global.value]))
    ELSE IF outcome.all.raises
    THEN Returns(Put(results, instance_id, [error |-> outcome.all.value]))
    ELSE Returns(Put(results, instance_id,
            [global |-> ModeValue(outcome.global.value),
             subjects |-> [k \in DOMAIN outcome.all.value |->
                              ModeValue(outcome.all.value[k])]]))

\* the loop body of each cross-registry operation
FanStep(op, results, instance_id, outcome) ==
    CASE op = "query_all" -> QueryAllStep(results, instance_id, outcome)
      [] op = "health_check_all" -> HealthCheckStep(results, instance_id, outcome)
      [] op = "find_schema_across_registries" ->
            FindSchemaStep(results, instance_id, outcome)
      [] op = "compare_compatibility_modes" ->
            CompareModesStep(results, instance_id, outcome)

RECURSIVE FanLoop(_, _, _, _, _)
\* for instance_id, registry in items: the loop body, from the i-th item on;
\* an exception that leaves the body leaves the loop
FanLoop(op, items, beh, i, results) ==
    IF i > Len(items)
    THEN Returns(results)
    ELSE LET r == FanStep(op, results, items[i].id, beh[items[i].id])
         IN IF r.raises THEN r
            ELSE FanLoop(op, items, beh, i + 1, r.value)

\* query_all(operation)
QueryAllResult(items, operation, beh) ==
    FanLoop("query_all", items,
            [id \in DOMAIN beh |-> MethodCall(operation, beh[id])],
            1, EmptyDict)

QueryOutcomes == {Raises("e1"), Returns("d1")}

QueryAll ==
    \E operation \in Operations :
    \E beh \in [Keys(active_registries) -> QueryOutcomes] :
        /\ fan' = [op |-> "query_all", arg |-> operation, beh |-> beh,
                   out |-> QueryAllResult(active_registries, operation, beh)]
        /\ UNCHANGED <<plugins, instances, active_registries, created, check, bulk>>

\* health_check_all()
HealthCheckAllResult(items, beh) ==
    FanLoop("health_check_all", items, beh, 1, EmptyDict)

HealthCheckAll ==
    \E beh \in [Keys(active_registries) -> HealthOutcomes] :
        /\ fan' = [op |-> "health_check_all", arg |-> None, beh |-> beh,
                   out |-> HealthCheckAllResult(active_registries, beh)]
        /\ UNCHANGED <<plugins, instances, active_registries, created, check, bulk>>

\* find_schema_across_registries(subject)
FindSchemaResult(items, beh) ==
    FanLoop("find_schema_across_registries", items, beh, 1, EmptyDict)

FindSchemaAcrossRegistries ==
    \E subject \in Subjects :
    \E beh \in [Keys(active_registries) -> LatestOutcomes(subject)] :
        /\ fan' = [op |-> "find_schema_across_registries", arg |-> subject,
                   beh |-> beh,
                   out |-> FindSchemaResult(active_registries, beh)]
        /\ UNCHANGED <<plugins, instances, active_registries, created, check, bulk>>

\* compare_compatibility_modes()
CompareModesResult(items, beh) ==
    FanLoop("compare_compatibility_modes", items, beh, 1, EmptyDict)

CompareCompatibilityModes ==
    \E beh \in [Keys(active_registries) -> ModeOutcomes] :
        /\ fan' = [op |-> "compare_compatibility_modes", arg |-> None,
                   beh |-> beh,
                   out |-> CompareModesResult(active_registries, beh)]
        /\ UNCHANGED <<plugins, instances, active_registries, created, check, bulk>>

-----------------------------------------------------------------------------
(* A cross-registry operation that runs while another thread adds and      *)
(* removes registries.  The loop holds an iterator over                    *)
(* active_registries.items(); each next() of the iterator and each dict    *)
(* mutation is one atomic step (the interpreter lock is released between   *)
(* them, at the latest during the backend call of the loop body).  The     *)
(* iterator walks the dict's entry table by position: a deleted entry      *)
(* leaves a hole, a new key goes to the end, a replaced key keeps its      *)
(* place.  The table is not rebuilt during the call (it holds five entries *)
(* before it grows, and the calls start from at most two).                 *)

FanOperations ==
    {"query_all", "health_check_all", "find_schema_across_registries",
     "compare_compatibility_modes"}

\* the argument of each cross-registry operation
FanArguments(name) ==
    CASE name = "query_all" -> Operations
      [] name = "find_schema_across_registries" -> Subjects
      [] OTHER -> {None}

\* what the backend of one instance can do in the loop body
StepOutcomes(name, arg) ==
    CASE name = "query_all" -> {MethodCall(arg, o) : o \in QueryOutcomes}
      [] name = "health_check_all" -> HealthOutcomes
      [] name = "find_schema_across_registries" -> LatestOutcomes(arg)
      [] name = "compare_compatibility_modes" -> ModeOutcomes

\* a cross-registry call that has not started
FanOutCall(name, arg) ==
    [op |-> "fan_call", name |-> name, arg |-> arg, results |-> EmptyDict,
     di_used |-> 0, di_len |-> 0, di_pos |-> 0, stable |-> {},
     mutations |-> 0, out |-> None]

\* results = {} and the iterator of "for instance_id, registry in
\* self.active_registries.items()": it remembers the size of the dict.
\* di_pos counts the live items in front of the iterator's position, stable
\* is the set of ids whose instance has been in the dict since the call began
ItemsIter ==
    /\ fan.op = "fan_call"
    /\ fan' = [fan EXCEPT !.op = "iterating",
                          !.di_used = Len(active_registries),
                          !.di_len = Len(active_registries),
                          !.di_pos = 0,
                          !.stable = Keys(active_registries)]
    /\ UNCHANGED <<plugins, instances, active_registries, created, check, bulk>>

\* next() on the iterator raises when the size of the dict has changed
ItemsNextSizeChanged ==
    /\ fan.op = "iterating"
    /\ fan.di_used # Len(active_registries)
    /\ fan' = [fan EXCEPT !.op = "fan_return", !.out = Raises("RuntimeError")]
    /\ UNCHANGED <<plugins, instances, active_registries, created, check, bulk>>

\* next() finds no further item: the loop ends and the results are returned
ItemsNextExhausted ==
    /\ fan.op = "iterating"
    /\ fan.di_used = Len(active_registries)
    /\ fan.di_pos >= Len(active_registries)
    /\ fan' = [fan EXCEPT !.op = "fan_return", !.out = Returns(fan.results)]
    /\ UNCHANGED <<plugins, instances, active_registries, created, check, bulk>>

\* next() finds an item after it has yielded as many as the dict had: the
\* interpreter raises "dictionary keys changed during iteration"
\* (interpreters before 3.8 yield the item instead, see ItemsNextItem)
ItemsNextKeysChanged ==
    /\ fan.op = "iterating"
    /\ fan.di_used = Len(active_registries)
    /\ fan.di_pos < Len(active_registries)
    /\ fan.di_len = 0
    /\ fan' = [fan EXCEPT !.op = "fan_return", !.out = Raises("RuntimeError")]
    /\ UNCHANGED <<plugins, instances, active_registries, created, check, bulk>>

\* next() yields the item at the iterator's position and the loop body runs
ItemsNextItem ==
    /\ fan.op = "iterating"
    /\ fan.di_used = Len(active_registries)
    /\ fan.di_pos < Len(active_registries)
    /\ \E outcome \in StepOutcomes(fan.name, fan.arg) :
          LET item == active_registries[fan.di_pos + 1]
              r == FanStep(fan.name, fan.results, item.id, outcome)
          IN fan' = IF r.raises
                    THEN [fan EXCEPT !.op = "fan_return", !.out = r]
                    ELSE [fan EXCEPT !.results = r.value,
                                     !.di_pos = fan.di_pos + 1,
                                     !.di_len = IF fan.di_len > 0
                                                THEN fan.di_len - 1 ELSE 0]
    /\ UNCHANGED <<plugins, instances, active_registries, created, check, bulk>>

\* add_registry(config) on another thread while the loop runs
ConcurrentAddRegistry(config) ==
    /\ fan.op = "iterating"
    /\ fan.mutations < MaxMutations
    /\ LET r == CreateInstance(config, config.id)
       IN /\ instances' = r.instances
          /\ created' = r.created
          /\ active_registries' =
                IF r.raises THEN active_registries
                ELSE DictSet(active_registries, config.id, r.value)
          /\ fan' = [fan EXCEPT !.mutations = fan.mutations + 1,
                                !.stable = IF r.raises THEN fan.stable
                                           ELSE fan.stable \ {config.id}]
    /\ UNCHANGED <<plugins, check, bulk>>

\* the position of key k in an ordered dict
IndexOf(items, k) == CHOOSE i \in 1..Len(items) : items[i].id = k

\* remove_registry(instance_id) on another thread while the loop runs
ConcurrentRemoveRegistry(instance_id) ==
    /\ fan.op = "iterating"
    /\ fan.mutations < MaxMutations
    /\ IF instance_id \in Keys(active_registries)
       THEN /\ active_registries' = DictDel(active_registries, instance_id)
            /\ fan' = [fan EXCEPT
                         !.mutations = fan.mutations + 1,
                         !.stable = fan.stable \ {instance_id},
                         !.di_pos = IF IndexOf(active_registries, instance_id)
                                         <= fan.di_pos
                                    THEN fan.di_pos - 1 ELSE fan.di_pos]
       ELSE /\ active_registries' = active_registries
            /\ fan' = [fan EXCEPT !.mutations = fan.mutations + 1]
    /\ UNCHANGED <<plugins, instances, created, check, bulk>>

-----------------------------------------------------------------------------
(* The per-subject transitive check (_check_single_subject) against a      *)
(* backend seen through the Confluent plugin.                              *)

CompatibilityResult(is_compatible, messages, compatibility_level, errors) ==
    [is_compatible |-> is_compatible, messages |-> messages,
     compatibility_level |-> compatibility_level, errors |-> errors]

\* a message string: its fixed text and the values formatted into it
Msg(text, version, detail) == [text |-> text, version |-> version, detail |-> detail]

SingleVersionMsg == Msg("Single version - no compatibility check needed", 0, "")
AllCompatibleMsg == Msg("All versions compatible", 0, "")
\* f"Check failed for version {version}: {str(e)}"
CheckFailedMsg(version, e) == Msg("Check failed for version", version, e)

\* data.get(key, default) on a decoded JSON object
JsonGet(data, key, default) == IF key \in DOMAIN data THEN data[key] ELSE default

\* what POST /compatibility/subjects/{subject}/versions/{version} can do:
\* fail in the transport, answer with a JSON body, or be followed by
\* another exception (an unknown compatibilityLevel name in the config)
ResponseKinds ==
    {"request_exception", "other_exception", "compatible", "incompatible",
     "incompatible_with_messages"}

HttpCheckResponse(kind, version) ==
    CASE kind = "request_exception" ->
            [kind |-> "request_exception", error |-> "e_http"]
      [] kind = "other_exception" ->
            [kind |-> "other_exception", error |-> "e_key"]
      [] kind = "compatible" ->
            [kind |-> "ok", data |-> [is_compatible |-> TRUE]]
      [] kind = "incompatible" ->
            [kind |-> "ok", data |-> [is_compatible |-> FALSE]]
      [] kind = "incompatible_with_messages" ->
            [kind |-> "ok",
             data |-> [is_compatible |-> FALSE,
                       messages |-> <<Msg("backend: incompatible with",
                                          version, "")>>]]

\* ConfluentSchemaRegistryPlugin.check_compatibility; the level it reports
\* comes from a second request, whose failures are among the two above
ConfluentCheckCompatibility(response) ==
    CASE response.kind = "ok" ->
            Returns(CompatibilityResult(
                JsonGet(response.data, "is_compatible", FALSE),
                JsonGet(response.data, "messages", <<>>),
                "BACKWARD", <<>>))
      [] response.kind = "request_exception" ->
            Returns(CompatibilityResult(FALSE, <<>>, "NONE", <<response.error>>))
      [] OTHER -> Raises(response.error)

\* versions[-1] and versions[:-1]
Last(versions) == versions[Len(versions)]
Front(versions) == SubSeq(versions, 1, Len(versions) - 1)

\* the exception of one per-version check leaves the loop
CheckVersionStepNoCatch(acc, version, outcome) ==
    IF outcome.raises
    THEN outcome
    ELSE IF ~outcome.value.is_compatible
    THEN Returns([all_compatible |-> FALSE,
                  messages |-> acc.messages \o outcome.value.messages])
    ELSE Returns(acc)

\* the messages of an incompatible version are dropped
CheckVersionStepNoExtend(acc, version, outcome) ==
    IF outcome.raises
    THEN Returns([all_compatible |-> FALSE,
                  messages |-> Append(acc.messages,
                                      CheckFailedMsg(version, outcome.value))])
    ELSE IF ~outcome.value.is_compatible
    THEN Returns([all_compatible |-> FALSE, messages |-> acc.messages])
    ELSE Returns(acc)

\* the body of "for version in versions[:-1]": acc is
\* (all_compatible, messages)
CheckVersionStep(acc, version, outcome) ==
    IF outcome.raises
    THEN Returns([all_compatible |-> FALSE,
                  messages |-> Append(acc.messages,
                                      CheckFailedMsg(version, outcome.value))])
    ELSE IF ~outcome.value.is_compatible
    THEN Returns([all_compatible |-> FALSE,
                  messages |-> acc.messages \o outcome.value.messages])
    ELSE Returns(acc)

RECURSIVE CheckVersionsLoop(_, _, _, _, _, _)
\* for version in versions[:-1], from the i-th prior version on; returns the
\* accumulator or the exception that left the loop, and the calls made
CheckVersionsLoop(world, latest, priors, i, acc, calls) ==
    IF i > Len(priors)
    THEN [raises |-> FALSE, value |-> acc, calls |-> calls]
    ELSE LET version == priors[i]
             outcome == ConfluentCheckCompatibility(world.check[version])
             made == Append(calls, [op |-> "check_compatibility",
                                    version |-> version,
                                    schema |-> latest.version])
             r == CheckVersionStep(acc, version, outcome)
         IN IF r.raises
            THEN [raises |-> TRUE, value |-> r.value, calls |-> made]
            ELSE CheckVersionsLoop(world, latest, priors, i + 1, r.value, made)

\* a subject with one version is sent through the loop
MinVersionsOffByOne == 2 - 1

\* the number of versions below which no check is made
MinVersions == 2

\* the result returned after the loop
FinalResult(acc, target_mode) ==
    CompatibilityResult(acc.all_compatible,
                        IF acc.messages # <<>> THEN acc.messages
                        ELSE <<AllCompatibleMsg>>,
                        target_mode, <<>>)

\* the result of the outer except branch
FailedResult(e, target_mode) ==
    CompatibilityResult(FALSE, <<>>, target_mode, <<e>>)

\* a check that lets the target mode choose the prior versions: none for
\* NONE, the newest prior version for a mode that is not transitive
CheckSingleSubjectByMode(world, subject, target_mode) ==
    LET listed == [op |-> "list_versions", version |-> 0, schema |-> 0]
    IN IF world.list_versions.raises
       THEN [result |-> FailedResult(world.list_versions.value, target_mode),
             calls |-> <<listed>>]
       ELSE LET versions == world.list_versions.value
            IN IF Len(versions) < MinVersions
               THEN [result |-> CompatibilityResult(TRUE, <<SingleVersionMsg>>,
                                                    target_mode, <<>>),
                     calls |-> <<listed>>]
               ELSE LET got == <<listed, [op |-> "get_schema_by_subject_version",
                                          version |-> Last(versions),
                                          schema |-> 0]>>
                        priors == Front(versions)
                        chosen ==
                            IF target_mode = "NONE" THEN <<>>
                            ELSE IF target_mode \in {"BACKWARD", "FORWARD", "FULL"}
                            THEN <<Last(priors)>>
                            ELSE priors
                    IN IF world.get_schema.raises
                       THEN [result |-> FailedResult(world.get_schema.value,
                                                     target_mode),
                             calls |-> got]
                       ELSE LET loop == CheckVersionsLoop(
                                    world, world.get_schema.value, chosen, 1,
                                    [all_compatible |-> TRUE, messages |-> <<>>],
                                    got)
                            IN [result |-> IF loop.raises
                                           THEN FailedResult(loop.value, target_mode)
                                           ELSE FinalResult(loop.value, target_mode),
                                calls |-> loop.calls]

\* _check_single_subject(registry, subject, target_mode): the result and
\* the backend calls made
CheckSingleSubject(world, subject, target_mode) ==
    LET listed == [op |-> "list_versions", version |-> 0, schema |-> 0]
    IN IF world.list_versions.raises
       THEN [result |-> FailedResult(world.list_versions.value, target_mode),
             calls |-> <<listed>>]
       ELSE LET versions == world.list_versions.value
            IN IF Len(versions) < MinVersions
               THEN [result |-> CompatibilityResult(TRUE, <<SingleVersionMsg>>,
                                                    target_mode, <<>>),
                     calls |-> <<listed>>]
               ELSE LET got == <<listed, [op |-> "get_schema_by_subject_version",
                                          version |-> Last(versions),
                                          schema |-> 0]>>
                    IN IF world.get_schema.raises
                       THEN [result |-> FailedResult(world.get_schema.value,
                                                     target_mode),
                             calls |-> got]
                       ELSE LET loop == CheckVersionsLoop(
                                    world, world.get_schema.value,
                                    Front(versions), 1,
                                    [all_compatible |-> TRUE, messages |-> <<>>],
                                    got)
                            IN [result |-> IF loop.raises
                                           THEN FailedResult(loop.value, target_mode)
                                           ELSE FinalResult(loop.value, target_mode),
                                calls |-> loop.calls]

RECURSIVE Ascending(_)
\* the members of a set of version numbers, oldest first
Ascending(S) ==
    IF S = {} THEN <<>>
    ELSE LET top == CHOOSE x \in S : \A y \in S : y <= x
         IN Append(Ascending(S \ {top}), top)

VersionLists == {Ascending(S) : S \in SUBSET (1..MaxVersions)}

\* the backend behaviours for one subject with the given version list
WorldsOf(subject, versions) ==
    IF versions = <<>>
    THEN {[list_versions |-> Returns(versions), get_schema |-> NoCall,
           check |-> EmptyDict]}
    ELSE {[list_versions |-> Returns(versions), get_schema |-> g, check |-> c] :
            g \in {Raises("e_get"), Returns(Schema(subject, Last(versions)))},
            c \in {[v \in DOMAIN kinds |-> HttpCheckResponse(kinds[v], v)] :
                      kinds \in [{versions[k] : k \in 1..Len(versions) - 1} ->
                                   ResponseKinds]}}

SubjectWorlds(subject) ==
    {[list_versions |-> Raises("e_list"), get_schema |-> NoCall,
      check |-> EmptyDict]}
    \cup UNION {WorldsOf(subject, versions) : versions \in VersionLists}

\* the arguments and the backend of one call that has not run yet
SubjectCall(subject, target_mode, world) ==
    [op |-> "call", subject |-> subject, target_mode |-> target_mode,
     world |-> world, result |-> None, calls |-> <<>>]

\* the call runs to its return
CheckSubject ==
    /\ check.op = "call"
    /\ LET r == CheckSingleSubject(check.world, check.subject, check.target_mode)
       IN check' = [check EXCEPT !.op = "return", !.result = r.result,
                                 !.calls = r.calls]
    /\ UNCHANGED <<plugins, instances, active_registries, created, fan, bulk>>

-----------------------------------------------------------------------------
(* bulk_check_compatibility.  The futures of one registry are collected in *)
(* completion order (as_completed), which is any order of the submitted    *)
(* subjects; duration_seconds is wall-clock time and is left out.          *)

BulkCheckResult(total_checked, compatible, incompatible, errors, results) ==
    [total_checked |-> total_checked, compatible |-> compatible,
     incompatible |-> incompatible, errors |-> errors, results |-> results]

ResultDict(registry_id, subject, is_compatible, messages, errors) ==
    [registry_id |-> registry_id, subject |-> subject,
     is_compatible |-> is_compatible, messages |-> messages, errors |-> errors]

\* future.result() of a submitted _check_single_subject task
FutureResult(world, subject, target_mode) ==
    Returns(CheckSingleSubject(world, subject, target_mode).result)

\* the counters are written from a value read before another task's update
CollectStepLostUpdate(acc, registry_id, subject, outcome) ==
    IF outcome.raises
    THEN [acc EXCEPT
            !.total_checked = @ + 1,
            !.errors = 1,
            !.results = Append(@, ResultDict(registry_id, subject, FALSE, <<>>,
                                             <<outcome.value>>))]
    ELSE [acc EXCEPT
            !.total_checked = @ + 1,
            !.results = Append(@, ResultDict(registry_id, subject,
                                             outcome.value.is_compatible,
                                             outcome.value.messages,
                                             outcome.value.errors)),
            !.compatible = IF outcome.value.is_compatible THEN 1 ELSE @,
            !.incompatible = IF outcome.value.is_compatible THEN @ ELSE 1]

\* the body of "for future in as_completed(futures)"
CollectStep(acc, registry_id, subject, outcome) ==
    IF outcome.raises
    THEN [acc EXCEPT
            !.total_checked = @ + 1,
            !.errors = @ + 1,
            !.results = Append(@, ResultDict(registry_id, subject, FALSE, <<>>,
                                             <<outcome.value>>))]
    ELSE [acc EXCEPT
            !.total_checked = @ + 1,
            !.results = Append(@, ResultDict(registry_id, subject,
                                             outcome.value.is_compatible,
                                             outcome.value.messages,
                                             outcome.value.errors)),
            !.compatible = IF outcome.value.is_compatible THEN @ + 1 ELSE @,
            !.incompatible = IF outcome.value.is_compatible THEN @ ELSE @ + 1]

RECURSIVE CollectLoop(_, _, _, _, _, _)
\* the futures of one registry, from the i-th completed one on
CollectLoop(acc, registry_id, backend, completed, i, target_mode) ==
    IF i > Len(completed)
    THEN acc
    ELSE CollectLoop(
            CollectStep(acc, registry_id, completed[i],
                        FutureResult(backend.subjects[completed[i]],
                                     completed[i], target_mode)),
            registry_id, backend, completed, i + 1, target_mode)

\* a failed listing leaves the whole call
RegistryStepNoCatch(acc, registry_id, backend, completed, target_mode) ==
    IF Get(active_registries, registry_id) = None
    THEN Returns(acc)
    ELSE IF backend.list_subjects.raises
    THEN backend.list_subjects
    ELSE Returns(CollectLoop(acc, registry_id, backend, completed, 1, target_mode))

\* the body of "for registry_id in registry_ids"
RegistryStep(acc, registry_id, backend, completed, target_mode) ==
    IF Get(active_registries, registry_id) = None
    THEN Returns(acc)
    ELSE IF backend.list_subjects.raises
    THEN Returns([acc EXCEPT !.errors = @ + 1])
    ELSE Returns(CollectLoop(acc, registry_id, backend, completed, 1, target_mode))

RECURSIVE BulkLoop(_, _, _, _, _, _)
\* for registry_id in registry_ids, from the i-th id on
BulkLoop(acc, registry_ids, backends, order, i, target_mode) ==
    IF i > Len(registry_ids)
    THEN Returns(acc)
    ELSE LET id == registry_ids[i]
             r == RegistryStep(acc, id, backends[id], order[id], target_mode)
         IN IF r.raises THEN r
            ELSE BulkLoop(r.value, registry_ids, backends, order, i + 1,
                          target_mode)

\* bulk_check_compatibility(registry_ids, target_mode)
BulkCheck(registry_ids, backends, order, target_mode) ==
    BulkLoop(BulkCheckResult(0, 0, 0, 0, <<>>), registry_ids, backends, order,
             1, target_mode)

\* the orders in which the futures of a listing can complete
CompletionOrders(subjects) ==
    {p \in [1..Len(subjects) -> {subjects[k] : k \in 1..Len(subjects)}] :
        \A a, b \in 1..Len(subjects) : a # b => p[a] # p[b]}

\* the ids a bulk call may name: r0 is not a live registry
BulkIds == <<"r1", "r0", "r2", "r3">>

RECURSIVE Pick(_, _)
\* the members of a set of positions of BulkIds, in that order
Pick(seq, S) ==
    IF seq = <<>> THEN <<>>
    ELSE (IF Len(seq) \in S THEN Pick(Front(seq), S) \o <<Last(seq)>>
          ELSE Pick(Front(seq), S))

RegistryIdLists ==
    {Pick(BulkIds, S) : S \in {T \in SUBSET (1..Len(BulkIds)) :
                                  Cardinality(T) <= MaxRegistryIds}}

\* one behaviour of a subject of each kind: the listing of its versions
\* fails, it has a single version, its latest schema cannot be fetched, its
\* latest schema is incompatible with the version before
BulkWorldKinds == {"unlisted", "single", "unfetched", "incompatible"}

BulkWorld(subject, kind) ==
    CASE kind = "unlisted" ->
            [list_versions |-> Raises("e_list"), get_schema |-> NoCall,
             check |-> EmptyDict]
      [] kind = "single" ->
            [list_versions |-> Returns(<<1>>),
             get_schema |-> Returns(Schema(subject, 1)), check |-> EmptyDict]
      [] kind = "unfetched" ->
            [list_versions |-> Returns(<<1, 2>>),
             get_schema |-> Raises("e_get"),
             check |-> [v \in {1} |-> HttpCheckResponse("compatible", v)]]
      [] kind = "incompatible" ->
            [list_versions |-> Returns(<<1, 2>>),
             get_schema |-> Returns(Schema(subject, 2)),
             check |-> [v \in {1} |->
                          HttpCheckResponse("incompatible_with_messages", v)]]

SubjectLists == {<<>>, <<"s1">>, <<"s1", "s2">>}

\* what one registry does during a bulk call: list_subjects raises, or
\* returns a list of subjects each with its own behaviour
BulkBackends ==
    {[list_subjects |-> Raises("e_list_subjects"), subjects |-> EmptyDict]}
    \cup UNION {{[list_subjects |-> Returns(l), subjects |-> w] :
                    w \in {[s \in DOMAIN kinds |-> BulkWorld(s, kinds[s])] :
                            kinds \in [{l[k] : k \in 1..Len(l)} -> BulkWorldKinds]}} :
                l \in SubjectLists}

NotLive == [list_subjects |-> NoCall, subjects |-> EmptyDict]

\* the arguments and the backends of one call that has not run yet
BulkCall(registry_ids, target_mode, live) ==
    [op |-> "call", registry_ids |-> registry_ids, target_mode |-> target_mode,
     backends |-> [id \in {registry_ids[k] : k \in 1..Len(registry_ids)} |->
                     IF id \in RegistryIds THEN live[id] ELSE NotLive],
     order |-> EmptyDict, out |-> None]

\* the submitted subjects of a registry of the call
Listed(b) == IF b = NotLive \/ b.list_subjects.raises THEN <<>>
             ELSE b.list_subjects.value

\* the call runs to its return
BulkCheckCompatibility ==
    /\ bulk.op = "call"
    /\ \E order \in [DOMAIN bulk.backends ->
                        UNION {CompletionOrders(l) : l \in SubjectLists}] :
          /\ \A id \in DOMAIN order :
                order[id] \in CompletionOrders(Listed(bulk.backends[id]))
          /\ bulk' = [bulk EXCEPT
                        !.op = "return", !.order = order,
                        !.out = BulkCheck(bulk.registry_ids, bulk.backends,
                                          order, bulk.target_mode)]
    /\ UNCHANGED <<plugins, instances, active_registries, created, fan, check>>

-----------------------------------------------------------------------------
(* bulk_check_compatibility step by step, with the worker pool of the      *)
(* orchestrator.  The calling thread walks registry_ids; for a registry it *)
(* submits one task per listed subject and then collects the futures as    *)
(* they complete.  The pool runs the queued tasks first in, first out, on  *)
(* at most max_workers threads.  A task is the pair of the registry's      *)
(* position in registry_ids and the subject's position in its listing;     *)
(* _check_single_subject catches every Exception, so a task always ends    *)
(* with a result.  Each record of all_results is kept by its registry_id;  *)
(* the verdicts and the counters of verdicts are those of                  *)
(* BulkCheckCompatibility above.  The executor has not been shut down.     *)

\* ThreadPoolExecutor(max_workers=10)
max_workers == 10

\* a listing of n subjects
ListingOf(n) == [k \in 1..n |-> k]

\* registry_ids of the calls; r9 is not an active registry
PoolIdLists ==
    {<<"r1", "r2">>, <<"r2", "r1">>, <<"r9", "r1">>, <<"r1", "r2", "r1">>,
     <<"r3">>}

\* registry.list_subjects(prefix=subject_filter) of the three registries: r3
\* lists one subject more than the pool has threads
PoolListings(registry_id) ==
    CASE registry_id = "r1" ->
            {Raises("e_list_subjects"), Returns(ListingOf(0)), Returns(ListingOf(2))}
      [] registry_id = "r2" -> {Returns(ListingOf(1)), Returns(ListingOf(2))}
      [] registry_id = "r3" -> {Returns(ListingOf(max_workers + 1))}
      [] OTHER -> {NoCall}

\* the backends of the registries named in registry_ids
PoolBackends(registry_ids) ==
    LET ids == {registry_ids[k] : k \in 1..Len(registry_ids)}
    IN {b \in [ids -> UNION {PoolListings(id) : id \in ids}] :
          \A id \in ids : b[id] \in PoolListings(id)}

\* one call that has not run yet: i registries have been taken from
\* registry_ids, k subjects of the current registry have been submitted
PoolCall(registry_ids, backends) ==
    [op |-> "pool_call", registry_ids |-> registry_ids, backends |-> backends,
     i |-> 0, subjects |-> <<>>, k |-> 0,
     submitted |-> {}, queue |-> <<>>, running |-> {}, done |-> {},
     collected |-> {}, all_results |-> <<>>, total_checked |-> 0,
     error_count |-> 0]

\* the futures dict of the current registry has been filled and every future
\* in it has been collected (or no registry has been taken yet)
FuturesCollected ==
    /\ bulk.op \in {"pool_call", "pool_futures"}
    /\ bulk.k = Len(bulk.subjects)
    /\ bulk.collected = bulk.submitted

\* the next registry is taken although futures are still to be collected
PoolNextRegistryNoWait ==
    /\ bulk.op \in {"pool_call", "pool_futures"}
    /\ bulk.k = Len(bulk.subjects)
    /\ bulk.i < Len(bulk.registry_ids)
    /\ LET registry_id == bulk.registry_ids[bulk.i + 1]
       IN IF registry_id \notin Keys(active_registries)
          THEN bulk' = [bulk EXCEPT !.op = "pool_futures", !.i = bulk.i + 1,
                                    !.subjects = <<>>, !.k = 0]
          ELSE IF bulk.backends[registry_id].raises
          THEN bulk' = [bulk EXCEPT !.op = "pool_futures", !.i = bulk.i + 1,
                                    !.subjects = <<>>, !.k = 0,
                                    !.error_count = bulk.error_count + 1]
          ELSE bulk' = [bulk EXCEPT !.op = "pool_futures", !.i = bulk.i + 1,
                                    !.subjects = bulk.backends[registry_id].value,
                                    !.k = 0]
    /\ UNCHANGED <<plugins, instances, active_registries, created, fan, check>>

\* the head of "for registry_id in registry_ids" up to futures = {}: a
\* registry that is not active is skipped, a listing that raises is counted
\* as an error
PoolNextRegistry ==
    /\ FuturesCollected
    /\ bulk.i < Len(bulk.registry_ids)
    /\ LET registry_id == bulk.registry_ids[bulk.i + 1]
       IN IF registry_id \notin Keys(active_registries)
          THEN bulk' = [bulk EXCEPT !.op = "pool_futures", !.i = bulk.i + 1,
                                    !.subjects = <<>>, !.k = 0]
          ELSE IF bulk.backends[registry_id].raises
          THEN bulk' = [bulk EXCEPT !.op = "pool_futures", !.i = bulk.i + 1,
                                    !.subjects = <<>>, !.k = 0,
                                    !.error_count = bulk.error_count + 1]
          ELSE bulk' = [bulk EXCEPT !.op = "pool_futures", !.i = bulk.i + 1,
                                    !.subjects = bulk.backends[registry_id].value,
                                    !.k = 0]
    /\ UNCHANGED <<plugins, instances, active_registries, created, fan, check>>

\* self.executor.submit(self._check_single_subject, registry, subject,
\* target_mode) for the next subject of the listing
PoolSubmit ==
    /\ bulk.op = "pool_futures"
    /\ bulk.k < Len(bulk.subjects)
    /\ LET task == <<bulk.i, bulk.subjects[bulk.k + 1]>>
       IN bulk' = [bulk EXCEPT !.k = bulk.k + 1,
                               !.submitted = bulk.submitted \cup {task},
                               !.queue = Append(bulk.queue, task)]
    /\ UNCHANGED <<plugins, instances, active_registries, created, fan, check>>

\* one iteration of "for future in as_completed(futures)": a completed
\* future of the current registry that has not been yielded yet
PoolCollect ==
    /\ bulk.op = "pool_futures"
    /\ bulk.k = Len(bulk.subjects)
    /\ \E task \in bulk.done :
          /\ task[1] = bulk.i
          /\ bulk' = [bulk EXCEPT
                        !.done = bulk.done \ {task},
                        !.collected = bulk.collected \cup {task},
                        !.total_checked = bulk.total_checked + 1,
                        !.all_results =
                            Append(bulk.all_results,
                                   [registry_id |-> bulk.registry_ids[task[1]]])]
    /\ UNCHANGED <<plugins, instances, active_registries, created, fan, check>>

\* the loop over registry_ids has ended: return BulkCheckResult(...)
PoolReturn ==
    /\ FuturesCollected
    /\ bulk.i = Len(bulk.registry_ids)
    /\ bulk' = [bulk EXCEPT !.op = "pool_return"]
    /\ UNCHANGED <<plugins, instances, active_registries, created, fan, check>>

\* a queued task starts whatever the number of running tasks
WorkerStartUnbounded ==
    /\ bulk.op \in {"pool_futures", "pool_return"}
    /\ bulk.queue # <<>>
    /\ bulk' = [bulk EXCEPT !.queue = Tail(bulk.queue),
                            !.running = bulk.running \cup {Head(bulk.queue)}]
    /\ UNCHANGED <<plugins, instances, active_registries, created, fan, check>>

\* a thread of the pool takes the oldest queued task; the pool has at most
\* max_workers threads and a thread runs one task at a time
WorkerStart ==
    /\ bulk.op \in {"pool_futures", "pool_return"}
    /\ bulk.queue # <<>>
    /\ Cardinality(bulk.running) < max_workers
    /\ bulk' = [bulk EXCEPT !.queue = Tail(bulk.queue),
                            !.running = bulk.running \cup {Head(bulk.queue)}]
    /\ UNCHANGED <<plugins, instances, active_registries, created, fan, check>>

\* a running _check_single_subject returns: its future is completed
WorkerFinish ==
    /\ bulk.op \in {"pool_futures", "pool_return"}
    /\ \E task \in bulk.running :
          bulk' = [bulk EXCEPT !.running = bulk.running \ {task},
                               !.done = bulk.done \cup {task}]
    /\ UNCHANGED <<plugins, instances, active_registries, created, fan, check>>

-----------------------------------------------------------------------------
(* bulk_set_compatibility.  A status string is a sequence of its parts:    *)
(* "error: " followed by str(e) is <<"error: ", e>>.                       *)

SetModeOutcomes == {Returns(TRUE), Returns(FALSE), Raises("e_set")}

\* "success" if success else "failed"
SetStatus(success) == IF success THEN <<"success">> ELSE <<"failed">>

ErrorStatus(e) == <<"error: ", e>>

\* a raising set_compatibility_mode leaves the loop over the subjects
SetSubjectStepNoCatch(registry_results, subject, outcome) ==
    IF outcome.raises
    THEN outcome
    ELSE Returns(Put(registry_results, subject, SetStatus(outcome.value)))

\* the body of "for subject in subjects"
SetSubjectStep(registry_results, subject, outcome) ==
    IF outcome.raises
    THEN Returns(Put(registry_results, subject, ErrorStatus(outcome.value)))
    ELSE Returns(Put(registry_results, subject, SetStatus(outcome.value)))

RECURSIVE SetSubjectsLoop(_, _, _, _)
\* for subject in subjects, from the i-th subject on
SetSubjectsLoop(registry_results, subjects, backend, i) ==
    IF i > Len(subjects)
    THEN Returns(registry_results)
    ELSE LET r == SetSubjectStep(registry_results, subjects[i],
                                 backend.set_mode[subjects[i]])
         IN IF r.raises THEN r
            ELSE SetSubjectsLoop(r.value, subjects, backend, i + 1)

\* the try block of one registry: the registry's results, or what it raised
SetRegistryTry(backend, subject_filter) ==
    IF subject_filter # ""
    THEN IF backend.list_subjects.raises
         THEN backend.list_subjects
         ELSE SetSubjectsLoop(EmptyDict, backend.list_subjects.value, backend, 1)
    ELSE IF backend.set_global.raises
         THEN Returns(Put(EmptyDict, "global",
                          ErrorStatus(backend.set_global.value)))
         ELSE Returns(Put(EmptyDict, "global",
                          SetStatus(backend.set_global.value)))

\* the body of "for registry_id in registry_ids"
SetRegistryStep(results, registry_id, backend, subject_filter) ==
    IF Get(active_registries, registry_id) = None
    THEN results
    ELSE LET r == SetRegistryTry(backend, subject_filter)
         IN IF r.raises
            THEN Put(results, registry_id, Put(EmptyDict, "error", <<r.value>>))
            ELSE Put(results, registry_id, r.value)

RECURSIVE BulkSetLoop(_, _, _, _, _)
\* for registry_id in registry_ids, from the i-th id on
BulkSetLoop(results, registry_ids, backends, subject_filter, i) ==
    IF i > Len(registry_ids)
    THEN results
    ELSE BulkSetLoop(
            SetRegistryStep(results, registry_ids[i], backends[registry_ids[i]],
                            subject_filter),
            registry_ids, backends, subject_filter, i + 1)

\* bulk_set_compatibility(registry_ids, mode, subject_filter)
BulkSet(registry_ids, backends, subject_filter) ==
    BulkSetLoop(EmptyDict, registry_ids, backends, subject_filter, 1)

\* subject_filter: absent, or a prefix every subject of the model starts with
SubjectFilters == {"", "s"}

\* what one registry does during a bulk set.  With a filter: list_subjects
\* raises, or returns a list of subjects and set_compatibility_mode answers
\* per subject.  Without one: set_compatibility_mode(mode) answers globally.
BulkSetBackends(subject_filter) ==
    IF subject_filter # ""
    THEN {[list_subjects |-> Raises("e_list_subjects"), set_mode |-> EmptyDict,
           set_global |-> NoCall]} \cup
         UNION {{[list_subjects |-> Returns(l), set_mode |-> m,
                  set_global |-> NoCall] :
                    m \in [{l[k] : k \in 1..Len(l)} -> SetModeOutcomes]} :
                l \in SubjectLists}
    ELSE {[list_subjects |-> NoCall, set_mode |-> EmptyDict, set_global |-> g] :
            g \in SetModeOutcomes}

SetNotLive == [list_subjects |-> NoCall, set_mode |-> EmptyDict,
               set_global |-> NoCall]

\* the arguments and the backends of one call that has not run yet
BulkSetCall(registry_ids, mode, subject_filter, live) ==
    [op |-> "set_call", registry_ids |-> registry_ids, mode |-> mode,
     subject_filter |-> subject_filter,
     backends |-> [id \in {registry_ids[k] : k \in 1..Len(registry_ids)} |->
                     IF id \in RegistryIds THEN live[id] ELSE SetNotLive],
     out |-> None]

\* the call runs to its return
BulkSetCompatibility ==
    /\ bulk.op = "set_call"
    /\ bulk' = [bulk EXCEPT
                  !.op = "set_return",
                  !.out = BulkSet(bulk.registry_ids, bulk.backends,
                                  bulk.subject_filter)]
    /\ UNCHANGED <<plugins, instances, active_registries, created, fan, check>>

-----------------------------------------------------------------------------
(* The Unity Catalog plugin: check_compatibility, list_versions and the    *)
(* schema-evolution check.  A parsed schema is the list under its "fields" *)
(* key; a field is a dict with the keys id, name, type and, optionally,    *)
(* required.  The candidate schema is the caller's JSON and may hold a     *)
(* field that lacks one of these keys.                                     *)

FieldIds == {1, 2}
FieldTypes == {"int", "long", "string", "float", "double", "date", "timestamp"}

\* the types the second field takes
NarrowTypes == {"int", "string"}

FieldName(id) == IF id = 1 THEN "c1" ELSE "c2"

\* the dicts a "fields" list may hold for one field id
FieldsOf(id) ==
    LET types == IF id = 1 THEN FieldTypes ELSE NarrowTypes
    IN {[id |-> id, name |-> FieldName(id), type |-> t] : t \in types}
       \cup {[id |-> id, name |-> FieldName(id), type |-> t, required |-> r] :
                t \in types, r \in BOOLEAN}

\* fields of a candidate schema without the key id, or without the key type
MalformedFields ==
    {[name |-> "c1", type |-> "int"], [id |-> 1, name |-> "c1"]}

\* field.get("required") and field.get("required", False), as a condition
Required(field) == IF "required" \in DOMAIN field THEN field.required ELSE FALSE

RECURSIVE FieldsById(_)
\* {f["id"]: f for f in schema.get("fields", [])}
FieldsById(fields) ==
    IF fields = <<>> THEN <<>>
    ELSE DictSet(FieldsById(Front(fields)), Last(fields).id, Last(fields))

\* a message of the evolution check: its text and the values formatted into it
EvolutionMsg(text, name, id, old_type, new_type) ==
    [text |-> text, name |-> name, id |-> id, old_type |-> old_type,
     new_type |-> new_type]

\* every (old, new) pair is taken to be safe
IsSafeTypePromotionAny(old_type, new_type) == TRUE

\* _is_safe_type_promotion(old_type, new_type)
IsSafeTypePromotion(old_type, new_type) ==
    <<old_type, new_type>> \in
        {<<"int", "long">>, <<"float", "double">>, <<"date", "timestamp">>}

\* the iteration order of old_fields.keys() & new_fields.keys(): a Python
\* set, whose order is taken to depend on its members only
CommonKeys(old_fields, new_fields) ==
    Ascending(Keys(old_fields) \cap Keys(new_fields))

RECURSIVE RemovedLoop(_, _, _)
\* for field_id, field in old_fields.items(): the messages appended
RemovedLoop(old_fields, new_fields, i) ==
    IF i > Len(old_fields) THEN <<>>
    ELSE (IF old_fields[i].id \notin Keys(new_fields)
             /\ Required(old_fields[i].inst)
          THEN <<EvolutionMsg("Required field was removed",
                              old_fields[i].inst.name, old_fields[i].id, "", "")>>
          ELSE <<>>)
         \o RemovedLoop(old_fields, new_fields, i + 1)

RECURSIVE TypeLoop(_, _, _, _)
\* the loop over the common keys that compares the types
TypeLoop(old_fields, new_fields, keys, i) ==
    IF i > Len(keys) THEN <<>>
    ELSE LET old_type == Get(old_fields, keys[i]).type
             new_type == Get(new_fields, keys[i]).type
         IN (IF old_type # new_type /\ ~IsSafeTypePromotion(old_type, new_type)
             THEN <<EvolutionMsg("Incompatible type change",
                                 Get(old_fields, keys[i]).name, 0,
                                 old_type, new_type)>>
             ELSE <<>>)
            \o TypeLoop(old_fields, new_fields, keys, i + 1)

RECURSIVE NullabilityLoop(_, _, _, _)
\* the loop over the common keys that compares the nullability
NullabilityLoop(old_fields, new_fields, keys, i) ==
    IF i > Len(keys) THEN <<>>
    ELSE LET old_nullable == ~Required(Get(old_fields, keys[i]))
             new_nullable == ~Required(Get(new_fields, keys[i]))
         IN (IF old_nullable /\ ~new_nullable
             THEN <<EvolutionMsg("changed from nullable to required",
                                 Get(old_fields, keys[i]).name, 0, "", "")>>
             ELSE <<>>)
            \o NullabilityLoop(old_fields, new_fields, keys, i + 1)

\* a required field added to new is reported
CheckIcebergEvolutionAddedRequired(old_schema, new_schema) ==
    LET old_fields == FieldsById(old_schema)
        new_fields == FieldsById(new_schema)
        keys == CommonKeys(old_fields, new_fields)
        added == SelectSeq(new_fields,
                           LAMBDA it : it.id \notin Keys(old_fields)
                                       /\ Required(it.inst))
        found == RemovedLoop(old_fields, new_fields, 1)
                 \o TypeLoop(old_fields, new_fields, keys, 1)
                 \o NullabilityLoop(old_fields, new_fields, keys, 1)
                 \o [k \in 1..Len(added) |->
                       EvolutionMsg("Required field was added",
                                    added[k].inst.name, added[k].id, "", "")]
    IN [is_compatible |-> found = <<>>,
        messages |-> IF found = <<>>
                     THEN <<EvolutionMsg("Schema evolution is compatible",
                                         "", 0, "", "")>>
                     ELSE found]

\* _check_iceberg_evolution(old_schema, new_schema): is_compatible is False
\* exactly when one of the three loops appended a message
CheckIcebergEvolution(old_schema, new_schema) ==
    LET old_fields == FieldsById(old_schema)
        new_fields == FieldsById(new_schema)
        keys == CommonKeys(old_fields, new_fields)
        found == RemovedLoop(old_fields, new_fields, 1)
                 \o TypeLoop(old_fields, new_fields, keys, 1)
                 \o NullabilityLoop(old_fields, new_fields, keys, 1)
    IN [is_compatible |-> found = <<>>,
        messages |-> IF found = <<>>
                     THEN <<EvolutionMsg("Schema evolution is compatible",
                                         "", 0, "", "")>>
                     ELSE found]

\* _check_iceberg_evolution raises KeyError: f["id"] on a field without an
\* id, or old_fields[field_id]["type"] / new_fields[field_id]["type"] on a
\* common field without a type
EvolutionRaises(old_schema, new_schema) ==
    \/ \E k \in 1..Len(old_schema) : "id" \notin DOMAIN old_schema[k]
    \/ \E k \in 1..Len(new_schema) : "id" \notin DOMAIN new_schema[k]
    \/ LET old_fields == FieldsById(old_schema)
           new_fields == FieldsById(new_schema)
       IN \E id \in Keys(old_fields) \cap Keys(new_fields) :
             \/ "type" \notin DOMAIN Get(old_fields, id)
             \/ "type" \notin DOMAIN Get(new_fields, id)

NewTableMsg == EvolutionMsg("New table - no compatibility check needed",
                            "", 0, "", "")

\* UnityCatalogPlugin.check_compatibility: latest is the outcome of
\* get_latest_schema(subject), content that of json.loads(schema_content)
UnityCheckCompatibility(latest, content) ==
    IF latest.raises
    THEN (IF latest.value = "KeyError"
          THEN CompatibilityResult(TRUE, <<NewTableMsg>>, "BACKWARD", <<>>)
          ELSE CompatibilityResult(FALSE, <<>>, "NONE", <<latest.value>>))
    ELSE IF content.raises
    THEN (IF content.value = "KeyError"
          THEN CompatibilityResult(TRUE, <<NewTableMsg>>, "BACKWARD", <<>>)
          ELSE CompatibilityResult(FALSE, <<>>, "NONE", <<content.value>>))
    ELSE IF EvolutionRaises(latest.value, content.value)
    THEN CompatibilityResult(TRUE, <<NewTableMsg>>, "BACKWARD", <<>>)
    ELSE LET r == CheckIcebergEvolution(latest.value, content.value)
         IN CompatibilityResult(r.is_compatible, r.messages, "BACKWARD",
                                IF r.is_compatible THEN <<>> ELSE r.messages)

\* UnityCatalogPlugin.list_versions: [1] if the table exists
UnityListVersions(latest) ==
    IF latest.raises
    THEN (IF latest.value = "KeyError" THEN Returns(<<>>) ELSE latest)
    ELSE Returns(<<1>>)

\* the "fields" lists of the model: each field id at most once; the old list
\* in either order, the new list by ascending id, its first field possibly
\* malformed
OldSchemas ==
    {<<>>} \cup {<<f>> : f \in FieldsOf(1) \cup FieldsOf(2)}
    \cup {<<f, g>> : f \in FieldsOf(1), g \in FieldsOf(2)}
    \cup {<<g, f>> : f \in FieldsOf(1), g \in FieldsOf(2)}

NewSchemas ==
    {<<>>} \cup {<<f>> : f \in FieldsOf(1) \cup FieldsOf(2)}
    \cup {<<f, g>> : f \in FieldsOf(1), g \in FieldsOf(2)}
    \cup {<<m>> : m \in MalformedFields}
    \cup {<<m, g>> : m \in MalformedFields, g \in FieldsOf(2)}

\* get_latest_schema(subject): the table's parsed schema, KeyError for a
\* table that does not exist, or another exception of the request
LatestSchemaOutcomes ==
    {Raises("KeyError"), Raises("ConnectionError")}
    \cup {Returns(o) : o \in OldSchemas}

\* json.loads(schema_content)
ContentOutcomes(latest) ==
    IF latest.raises
    THEN {Returns(<<>>)}
    ELSE {Raises("JSONDecodeError")} \cup {Returns(n) : n \in NewSchemas}

\* one call of the plugin that has not run yet
UnityCall(method, latest, content) ==
    [op |-> "unity_call", method |-> method, latest |-> latest,
     content |-> content, result |-> None]

\* check_compatibility runs to its return
UnityCheck ==
    /\ check.op = "unity_call"
    /\ check.method = "check_compatibility"
    /\ check' = [check EXCEPT
                   !.op = "unity_return",
                   !.result = Returns(UnityCheckCompatibility(check.latest,
                                                              check.content))]
    /\ UNCHANGED <<plugins, instances, active_registries, created, fan, bulk>>

\* list_versions runs to its return or raise
UnityList ==
    /\ check.op = "unity_call"
    /\ check.method = "list_versions"
    /\ check' = [check EXCEPT !.op = "unity_return",
                              !.result = UnityListVersions(check.latest)]
    /\ UNCHANGED <<plugins, instances, active_registries, created, fan, bulk>>

-----------------------------------------------------------------------------
(* The schema format of a plugin request.  A call returns or raises, and   *)
(* sent lists the requests it made to the backend.                         *)

SchemaFormat ==
    {"avro", "protobuf", "json_schema", "iceberg", "parquet", "openapi",
     "asyncapi", "sql_ddl"}

\* get_supported_formats() of each plugin
SupportedFormats(plugin) ==
    IF plugin = "confluent" THEN {"avro", "protobuf", "json_schema"}
    ELSE {"iceberg", "avro"}

\* _map_format_to_confluent(format): mapping.get(format, "AVRO")
MapFormatToConfluent(format) ==
    CASE format = "avro" -> "AVRO"
      [] format = "protobuf" -> "PROTOBUF"
      [] format = "json_schema" -> "JSON"
      [] OTHER -> "AVRO"

UnsupportedFormat == "ValueError: format not supported"
InvalidSubject == "ValueError: subject must be catalog.schema.table"
NotImplemented == "NotImplementedError"

\* a request handed to the HTTP session
Request(verb, path, schemaType) ==
    [verb |-> verb, path |-> path, schemaType |-> schemaType]

PluginResult(out, sent) == [out |-> out, sent |-> sent]

\* ConfluentSchemaRegistryPlugin.register_schema
ConfluentRegisterSchema(subject, schema_format, response) ==
    IF schema_format \notin SupportedFormats("confluent")
    THEN PluginResult(Raises(UnsupportedFormat), <<>>)
    ELSE PluginResult(
            IF response.kind = "ok" THEN Returns(Schema(subject, 1))
            ELSE Raises(response.error),
            <<Request("POST", "subjects/versions",
                      MapFormatToConfluent(schema_format))>>)

\* ConfluentSchemaRegistryPlugin.check_compatibility with its request
ConfluentCheck(subject, schema_format, response) ==
    PluginResult(ConfluentCheckCompatibility(response),
                 <<Request("POST", "compatibility/subjects/versions",
                           MapFormatToConfluent(schema_format))>>)

\* _parse_subject(subject) accepts catalog.schema.table
ValidUnitySubject(subject) == subject = "main.default.t1"

\* UnityCatalogPlugin.register_schema
UnityRegisterSchema(subject, schema_format, response) ==
    IF ~ValidUnitySubject(subject)
    THEN PluginResult(Raises(InvalidSubject), <<>>)
    ELSE IF schema_format = "avro"
    THEN PluginResult(Raises(NotImplemented), <<>>)
    ELSE IF schema_format # "iceberg"
    THEN PluginResult(Raises(UnsupportedFormat), <<>>)
    ELSE PluginResult(
            IF response.kind = "ok" THEN Returns(Schema(subject, 1))
            ELSE Raises(response.error),
            <<Request("POST", "unity-catalog/tables", "")>>)

\* get_latest_schema(subject) with its request: an invalid subject raises
\* before the request; a 404 answer (the response that fails outside the
\* transport) becomes KeyError; the table read has no fields
UnityGetLatestSchema(subject, response) ==
    IF ~ValidUnitySubject(subject)
    THEN PluginResult(Raises(InvalidSubject), <<>>)
    ELSE PluginResult(
            CASE response.kind = "ok" -> Returns(<<>>)
              [] response.kind = "request_exception" -> Raises(response.error)
              [] OTHER -> Raises("KeyError"),
            <<Request("GET", "unity-catalog/tables", "")>>)

\* UnityCatalogPlugin.check_compatibility with its request: schema_format is
\* not read; schema_content is an empty schema
UnityCheckRequest(subject, schema_format, response) ==
    LET latest == UnityGetLatestSchema(subject, response)
    IN PluginResult(Returns(UnityCheckCompatibility(latest.out, Returns(<<>>))),
                    latest.sent)

PluginMethods == {"register_schema", "check_compatibility"}
PluginSubjects == {"s1", "main.default.t1"}

\* plugin.method(subject, schema_content, schema_format)
PluginDispatch(plugin, method, subject, schema_format, response) ==
    CASE plugin = "confluent" /\ method = "register_schema" ->
            ConfluentRegisterSchema(subject, schema_format, response)
      [] plugin = "confluent" /\ method = "check_compatibility" ->
            ConfluentCheck(subject, schema_format, response)
      [] plugin = "unity_catalog" /\ method = "register_schema" ->
            UnityRegisterSchema(subject, schema_format, response)
      [] OTHER -> UnityCheckRequest(subject, schema_format, response)

\* one call of a plugin that has not run yet
PluginCall(plugin, method, subject, schema_format, response) ==
    [op |-> "plugin_call", plugin |-> plugin, method |-> method,
     subject |-> subject, schema_format |-> schema_format,
     response |-> response, out |-> None, sent |-> <<>>]

\* the call runs to its return or raise
PluginRequest ==
    /\ check.op = "plugin_call"
    /\ LET r == PluginDispatch(check.plugin, check.method, check.subject,
                               check.schema_format, check.response)
       IN check' = [check EXCEPT !.op = "plugin_return", !.out = r.out,
                                 !.sent = r.sent]
    /\ UNCHANGED <<plugins, instances, active_registries, created, fan, bulk>>

-----------------------------------------------------------------------------
(* Plugin operations that answer from one or more GET requests:            *)
(* health_check and get_all_compatibility_modes.  response_time_ms is      *)
(* wall-clock time and is left at 0.                                       *)

\* what session.get(url) followed by raise_for_status() can do: answer 200,
\* raise HTTPError for a 503 answer, raise ConnectionError (both are
\* RequestException), or raise an exception that is not a RequestException
HealthResponses == {"ok", "http_error", "connection_error", "other_exception"}

HealthError(response) ==
    CASE response = "http_error" -> "503 Server Error"
      [] response = "connection_error" -> "Connection refused"
      [] OTHER -> "Connection refused (Exception)"

\* health_check() of the Confluent and of the Unity Catalog plugin
PluginHealthCheck(plugin, response) ==
    CASE response = "ok" ->
            Returns(HealthStatus(TRUE, 200, <<plugin, " is healthy">>, 0,
                                 [url |-> "u", registry_type |-> plugin]))
      [] response \in {"http_error", "connection_error"} ->
            Returns(HealthStatus(
                FALSE,
                IF response = "http_error" THEN 503 ELSE 0,
                <<"Health check failed: ", HealthError(response)>>, 0,
                [url |-> "u", error |-> HealthError(response)]))
      [] OTHER -> Raises(HealthError(response))

\* one health_check call that has not run yet
HealthCall(plugin, response) ==
    [op |-> "health_call", plugin |-> plugin, response |-> response,
     out |-> None]

\* health_check runs to its return or raise
HealthCheck ==
    /\ check.op = "health_call"
    /\ check' = [check EXCEPT
                   !.op = "health_return",
                   !.out = PluginHealthCheck(check.plugin, check.response)]
    /\ UNCHANGED <<plugins, instances, active_registries, created, fan, bulk>>

\* what GET /config or GET /config/{subject} can answer: a config with a
\* level, a config without one, a level that is no CompatibilityMode name,
\* 404, or another HTTP error
ConfigResponses ==
    {[kind |-> "ok", data |-> [compatibilityLevel |-> "FULL"]],
     [kind |-> "ok", data |-> [compatibilityLevel |-> "FORWARD"]],
     [kind |-> "ok", data |-> EmptyDict],
     [kind |-> "ok", data |-> [compatibilityLevel |-> "UNKNOWN_LEVEL"]],
     [kind |-> "not_found"],
     [kind |-> "http_error"]}

\* CompatibilityMode[data.get("compatibilityLevel", "BACKWARD")]
ModeOfConfig(data) ==
    LET mode_str == JsonGet(data, "compatibilityLevel", "BACKWARD")
    IN IF mode_str \in CompatibilityMode THEN Returns(mode_str)
       ELSE Raises("KeyError")

\* ConfluentSchemaRegistryPlugin.get_compatibility_mode()
GlobalCompatibilityMode(global) ==
    IF global.kind = "ok" THEN ModeOfConfig(global.data)
    ELSE Raises("HTTPError")

\* ConfluentSchemaRegistryPlugin.get_compatibility_mode(subject)
SubjectCompatibilityMode(config, global) ==
    CASE config.kind = "ok" -> ModeOfConfig(config.data)
      [] config.kind = "not_found" -> GlobalCompatibilityMode(global)
      [] OTHER -> Raises("HTTPError")

\* the body of "for subject in subjects" in get_all_compatibility_modes
AllModesStep(modes, subject, outcome) ==
    IF outcome.raises THEN modes ELSE Put(modes, subject, outcome.value)

RECURSIVE AllModesLoop(_, _, _, _, _)
\* for subject in subjects, from the i-th subject on
AllModesLoop(modes, subjects, configs, global, i) ==
    IF i > Len(subjects) THEN modes
    ELSE AllModesLoop(
            AllModesStep(modes, subjects[i],
                         SubjectCompatibilityMode(configs[subjects[i]], global)),
            subjects, configs, global, i + 1)

\* ConfluentSchemaRegistryPlugin.get_all_compatibility_modes()
GetAllCompatibilityModes(list_subjects, configs, global) ==
    IF list_subjects.raises
    THEN Returns(EmptyDict)
    ELSE Returns(AllModesLoop(EmptyDict, list_subjects.value, configs, global, 1))

\* one get_all_compatibility_modes call that has not run yet
AllModesCall(list_subjects, configs, global) ==
    [op |-> "modes_call", list_subjects |-> list_subjects, configs |-> configs,
     global |-> global, out |-> None]

\* get_all_compatibility_modes runs to its return
AllCompatibilityModes ==
    /\ check.op = "modes_call"
    /\ check' = [check EXCEPT
                   !.op = "modes_return",
                   !.out = GetAllCompatibilityModes(check.list_subjects,
                                                    check.configs, check.global)]
    /\ UNCHANGED <<plugins, instances, active_registries, created, fan, bulk>>

-----------------------------------------------------------------------------
(* The transition-risk table and the matrix built from it.  A row is       *)
(* <<from_mode, to_mode, risk_level, requires_validation>>; the            *)
(* description of a row is left out.                                       *)

COMPATIBILITY_TRANSITIONS ==
    <<
      <<"NONE", "BACKWARD", "RISKY", TRUE>>,
      <<"NONE", "BACKWARD_TRANSITIVE", "RISKY", TRUE>>,
      <<"NONE", "FORWARD", "RISKY", TRUE>>,
      <<"NONE", "FORWARD_TRANSITIVE", "RISKY", TRUE>>,
      <<"NONE", "FULL", "DANGEROUS", TRUE>>,
      <<"NONE", "FULL_TRANSITIVE", "DANGEROUS", TRUE>>,
      <<"BACKWARD", "NONE", "SAFE", FALSE>>,
      <<"BACKWARD", "BACKWARD_TRANSITIVE", "SAFE", FALSE>>,
      <<"BACKWARD", "FORWARD", "DANGEROUS", TRUE>>,
      <<"BACKWARD", "FORWARD_TRANSITIVE", "DANGEROUS", TRUE>>,
      <<"BACKWARD", "FULL", "RISKY", TRUE>>,
      <<"BACKWARD", "FULL_TRANSITIVE", "DANGEROUS", TRUE>>,
      <<"BACKWARD_TRANSITIVE", "NONE", "SAFE", FALSE>>,
      <<"BACKWARD_TRANSITIVE", "BACKWARD", "SAFE", FALSE>>,
      <<"BACKWARD_TRANSITIVE", "FORWARD", "DANGEROUS", TRUE>>,
      <<"BACKWARD_TRANSITIVE", "FORWARD_TRANSITIVE", "DANGEROUS", TRUE>>,
      <<"BACKWARD_TRANSITIVE", "FULL", "DANGEROUS", TRUE>>,
      <<"BACKWARD_TRANSITIVE", "FULL_TRANSITIVE", "DANGEROUS", TRUE>>,
      <<"FORWARD", "NONE", "SAFE", FALSE>>,
      <<"FORWARD", "BACKWARD", "DANGEROUS", TRUE>>,
      <<"FORWARD", "BACKWARD_TRANSITIVE", "DANGEROUS", TRUE>>,
      <<"FORWARD", "FORWARD_TRANSITIVE", "SAFE", FALSE>>,
      <<"FORWARD", "FULL", "RISKY", TRUE>>,
      <<"FORWARD", "FULL_TRANSITIVE", "DANGEROUS", TRUE>>,
      <<"FORWARD_TRANSITIVE", "NONE", "SAFE", FALSE>>,
      <<"FORWARD_TRANSITIVE", "BACKWARD", "DANGEROUS", TRUE>>,
      <<"FORWARD_TRANSITIVE", "BACKWARD_TRANSITIVE", "DANGEROUS", TRUE>>,
      <<"FORWARD_TRANSITIVE", "FORWARD", "SAFE", FALSE>>,
      <<"FORWARD_TRANSITIVE", "FULL", "DANGEROUS", TRUE>>,
      <<"FORWARD_TRANSITIVE", "FULL_TRANSITIVE", "RISKY", TRUE>>,
      <<"FULL", "NONE", "SAFE", FALSE>>,
      <<"FULL", "BACKWARD", "SAFE", FALSE>>,
      <<"FULL", "BACKWARD_TRANSITIVE", "RISKY", TRUE>>,
      <<"FULL", "FORWARD", "SAFE", FALSE>>,
      <<"FULL", "FORWARD_TRANSITIVE", "RISKY", TRUE>>,
      <<"FULL", "FULL_TRANSITIVE", "SAFE", FALSE>>,
      <<"FULL_TRANSITIVE", "NONE", "SAFE", FALSE>>,
      <<"FULL_TRANSITIVE", "BACKWARD", "SAFE", FALSE>>,
      <<"FULL_TRANSITIVE", "BACKWARD_TRANSITIVE", "SAFE", FALSE>>,
      <<"FULL_TRANSITIVE", "FORWARD", "SAFE", FALSE>>,
      <<"FULL_TRANSITIVE", "FORWARD_TRANSITIVE", "SAFE", FALSE>>,
      <<"FULL_TRANSITIVE", "FULL", "SAFE", FALSE>>
    >>

\* the modes of print_transition_matrix
MatrixModes ==
    {"NONE", "BACKWARD", "BACKWARD_TRANSITIVE", "FORWARD", "FORWARD_TRANSITIVE",
     "FULL", "FULL_TRANSITIVE"}

RiskLevels == {"SAFE", "RISKY", "DANGEROUS"}

\* the row is looked up by its target only
FindTransitionByTarget(from_mode, to_mode) ==
    LET hits == {k \in 1..Len(COMPATIBILITY_TRANSITIONS) :
                    COMPATIBILITY_TRANSITIONS[k][2] = to_mode}
    IN IF hits = {} THEN None
       ELSE Returns(COMPATIBILITY_TRANSITIONS[
                       CHOOSE k \in hits : \A j \in hits : k <= j])

\* next((t for t in COMPATIBILITY_TRANSITIONS
\*       if t[0] == from_mode and t[1] == to_mode), None): the first match
FindTransition(from_mode, to_mode) ==
    LET hits == {k \in 1..Len(COMPATIBILITY_TRANSITIONS) :
                    /\ COMPATIBILITY_TRANSITIONS[k][1] = from_mode
                    /\ COMPATIBILITY_TRANSITIONS[k][2] = to_mode}
    IN IF hits = {} THEN None
       ELSE Returns(COMPATIBILITY_TRANSITIONS[
                       CHOOSE k \in hits : \A j \in hits : k <= j])

\* a self pair is looked up like any other pair
MatrixCellNoSelf(from_mode, to_mode) ==
    LET transition == FindTransition(from_mode, to_mode)
    IN IF transition # None THEN transition.value[3] ELSE "?"

\* matrix[from_mode][to_mode] as print_transition_matrix fills it
MatrixCell(from_mode, to_mode) ==
    IF from_mode = to_mode THEN "N/A"
    ELSE LET transition == FindTransition(from_mode, to_mode)
         IN IF transition # None THEN transition.value[3] ELSE "?"

\* one cell of the matrix that has not been filled yet
MatrixCall(from_mode, to_mode) ==
    [op |-> "matrix_call", from_mode |-> from_mode, to_mode |-> to_mode,
     transition |-> None, cell |-> ""]

\* the cell is filled
FillMatrixCell ==
    /\ check.op = "matrix_call"
    /\ check' = [check EXCEPT
                   !.op = "matrix_return",
                   !.transition = FindTransition(check.from_mode, check.to_mode),
                   !.cell = MatrixCell(check.from_mode, check.to_mode)]
    /\ UNCHANGED <<plugins, instances, active_registries, created, fan, bulk>>

\* one parametrized case of test_compatibility_transition, not run yet
TransitionCase(row) ==
    [op |-> "case_call", row |-> row, passed |-> FALSE]

\* test_compatibility_transition: its three assertions
TestCompatibilityTransition ==
    /\ check.op = "case_call"
    /\ check' = [check EXCEPT
                   !.op = "case_return",
                   !.passed = /\ check.row[1] \in MatrixModes
                              /\ check.row[2] \in MatrixModes
                              /\ check.row[3] \in RiskLevels]
    /\ UNCHANGED <<plugins, instances, active_registries, created, fan, bulk>>

-----------------------------------------------------------------------------
Init ==
    /\ plugins = RegisteredTypes
    /\ instances = EmptyDict
    /\ active_registries = <<>>
    /\ created = 0
    /\ fan = NoCall
    /\ check = NoCall
    /\ bulk = NoCall

NextFan ==
    \/ \E c \in RegistryConfigs : AddRegistry(c)
    \/ \E id \in RegistryIds : RemoveRegistry(id)
    \/ QueryAll
    \/ HealthCheckAll
    \/ FindSchemaAcrossRegistries
    \/ CompareCompatibilityModes

SpecFan == Init /\ [][NextFan]_vars

NextSubject == CheckSubject

InitSubject ==
    /\ plugins = RegisteredTypes
    /\ instances = EmptyDict
    /\ active_registries = <<>>
    /\ created = 0
    /\ fan = NoCall
    /\ \E subject \in Subjects, target_mode \in CompatibilityMode :
       \E world \in SubjectWorlds(subject) :
          check = SubjectCall(subject, target_mode, world)
    /\ bulk = NoCall

SpecSubject == InitSubject /\ [][NextSubject]_vars

\* r1, r2 and r3 have been added, in this order
ThreeRegistries ==
    [k \in 1..3 |-> [id |-> <<"r1", "r2", "r3">>[k],
                     inst |-> [type |-> "confluent", serial |-> k]]]

InitBulk ==
    /\ plugins = RegisteredTypes
    /\ active_registries = ThreeRegistries
    /\ instances = [id \in Keys(ThreeRegistries) |-> Get(ThreeRegistries, id)]
    /\ created = Len(ThreeRegistries)
    /\ fan = NoCall
    /\ check = NoCall
    /\ \E ids \in RegistryIdLists :
       \E live \in [{ids[k] : k \in 1..Len(ids)} \cap RegistryIds -> BulkBackends] :
          bulk = BulkCall(ids, "FULL_TRANSITIVE", live)

NextBulk == BulkCheckCompatibility

SpecBulk == InitBulk /\ [][NextBulk]_vars

\* the orchestrator holds r1, or r1 and r2, or nothing, and a cross-registry
\* call is about to start
InitConcurrent ==
    /\ plugins = RegisteredTypes
    /\ \E n \in 0..2 :
          /\ active_registries = SubSeq(ThreeRegistries, 1, n)
          /\ instances = [id \in Keys(SubSeq(ThreeRegistries, 1, n)) |->
                             Get(ThreeRegistries, id)]
          /\ created = n
    /\ \E name \in FanOperations :
       \E arg \in FanArguments(name) : fan = FanOutCall(name, arg)
    /\ check = NoCall
    /\ bulk = NoCall

NextConcurrent ==
    \/ ItemsIter
    \/ ItemsNextSizeChanged
    \/ ItemsNextExhausted
    \/ ItemsNextKeysChanged
    \/ ItemsNextItem
    \/ \E c \in RegistryConfigs : ConcurrentAddRegistry(c)
    \/ \E id \in RegistryIds : ConcurrentRemoveRegistry(id)

SpecConcurrent == InitConcurrent /\ [][NextConcurrent]_vars

InitPool ==
    /\ plugins = RegisteredTypes
    /\ active_registries = ThreeRegistries
    /\ instances = [id \in Keys(ThreeRegistries) |-> Get(ThreeRegistries, id)]
    /\ created = Len(ThreeRegistries)
    /\ fan = NoCall
    /\ check = NoCall
    /\ \E registry_ids \in PoolIdLists :
       \E backends \in PoolBackends(registry_ids) :
          bulk = PoolCall(registry_ids, backends)

\* the steps of the calling thread
PoolCaller == PoolNextRegistry \/ PoolSubmit \/ PoolCollect \/ PoolReturn

NextPool ==
    \/ PoolNextRegistry
    \/ PoolSubmit
    \/ PoolCollect
    \/ PoolReturn
    \/ WorkerStart
    \/ WorkerFinish

SpecPool == InitPool /\ [][NextPool]_vars

\* the calling thread keeps running, a free pool thread takes a queued task,
\* and every backend call of a running task returns or raises in the end
SpecPoolLive ==
    /\ InitPool
    /\ [][NextPool]_vars
    /\ WF_vars(PoolCaller)
    /\ WF_vars(WorkerStart)
    /\ WF_vars(WorkerFinish)

InitBulkSet ==
    /\ plugins = RegisteredTypes
    /\ active_registries = ThreeRegistries
    /\ instances = [id \in Keys(ThreeRegistries) |-> Get(ThreeRegistries, id)]
    /\ created = Len(ThreeRegistries)
    /\ fan = NoCall
    /\ check = NoCall
    /\ \E ids \in RegistryIdLists, f \in SubjectFilters :
       \E live \in [{ids[k] : k \in 1..Len(ids)} \cap RegistryIds -> BulkSetBackends(f)] :
          bulk = BulkSetCall(ids, "FULL", f, live)

NextBulkSet == BulkSetCompatibility

SpecBulkSet == InitBulkSet /\ [][NextBulkSet]_vars

InitUnity ==
    /\ plugins = RegisteredTypes
    /\ instances = EmptyDict
    /\ active_registries = <<>>
    /\ created = 0
    /\ fan = NoCall
    /\ bulk = NoCall
    /\ \/ \E latest \in LatestSchemaOutcomes :
          \E content \in ContentOutcomes(latest) :
             check = UnityCall("check_compatibility", latest, content)
       \/ \E latest \in LatestSchemaOutcomes :
             check = UnityCall("list_versions", latest, None)

NextUnity ==
    \/ UnityCheck
    \/ UnityList

SpecUnity == InitUnity /\ [][NextUnity]_vars

InitFormat ==
    /\ plugins = RegisteredTypes
    /\ instances = EmptyDict
    /\ active_registries = <<>>
    /\ created = 0
    /\ fan = NoCall
    /\ bulk = NoCall
    /\ \E plugin \in RegisteredTypes, method \in PluginMethods,
          subject \in PluginSubjects, schema_format \in SchemaFormat,
          kind \in ResponseKinds :
          check = PluginCall(plugin, method, subject, schema_format,
                             HttpCheckResponse(kind, 1))

NextFormat == PluginRequest

SpecFormat == InitFormat /\ [][NextFormat]_vars

InitPlugin ==
    /\ plugins = RegisteredTypes
    /\ instances = EmptyDict
    /\ active_registries = <<>>
    /\ created = 0
    /\ fan = NoCall
    /\ bulk = NoCall
    /\ \/ \E plugin \in RegisteredTypes, response \in HealthResponses :
             check = HealthCall(plugin, response)
       \/ \E global \in ConfigResponses :
             \/ check = AllModesCall(Raises("e_list_subjects"), EmptyDict, global)
             \/ \E l \in SubjectLists :
                \E configs \in [{l[k] : k \in 1..Len(l)} -> ConfigResponses] :
                   check = AllModesCall(Returns(l), configs, global)

NextPlugin ==
    \/ HealthCheck
    \/ AllCompatibilityModes

SpecPlugin == InitPlugin /\ [][NextPlugin]_vars

InitTransitions ==
    /\ plugins = RegisteredTypes
    /\ instances = EmptyDict
    /\ active_registries = <<>>
    /\ created = 0
    /\ fan = NoCall
    /\ bulk = NoCall
    /\ \/ \E from_mode \in CompatibilityMode, to_mode \in CompatibilityMode :
             check = MatrixCall(from_mode, to_mode)
       \/ \E k \in 1..Len(COMPATIBILITY_TRANSITIONS) :
             check = TransitionCase(COMPATIBILITY_TRANSITIONS[k])

NextTransitions ==
    \/ FillMatrixCell
    \/ TestCompatibilityTransition

SpecTransitions == InitTransitions /\ [][NextTransitions]_vars

-----------------------------------------------------------------------------
(* Claims about the cross-registry operations (SpecFan) *)

\* position of a live instance in the iteration order
Pos(id) == CHOOSE i \in 1..Len(active_registries) : active_registries[i].id = id

\* C1: query_all returns exactly one entry per live instance, and each entry
\* is that instance's own outcome: {status: error, error} when its call
\* raised, {status: success, data} when it returned, whatever the other
\* instances did and wherever they stand in the iteration order.
C1_QueryAllIsolation ==
    fan.op = "query_all" =>
        /\ ~fan.out.raises
        /\ DOMAIN fan.out.value = Keys(active_registries)
        /\ \A id \in Keys(active_registries) :
              LET raised == fan.arg \notin MethodNames \/ fan.beh[id].raises
                  entry == fan.out.value[id]
              IN IF raised
                 THEN /\ DOMAIN entry = {"status", "error"}
                      /\ entry.status = "error"
                      /\ entry.error = IF fan.arg \in MethodNames
                                       THEN fan.beh[id].value
                                       ELSE "AttributeError"
                 ELSE /\ DOMAIN entry = {"status", "data"}
                      /\ entry.status = "success"
                      /\ entry.data = fan.beh[id].value

\* an instance that raised is visited before one that succeeded, and both
\* have their entries
C1_Witness ==
    /\ fan.op = "query_all"
    /\ fan.arg \in MethodNames
    /\ ~fan.out.raises
    /\ \E a, b \in Keys(active_registries) :
          /\ Pos(a) < Pos(b)
          /\ fan.beh[a].raises /\ ~fan.beh[b].raises
          /\ fan.out.value[a].status = "error"
          /\ fan.out.value[b].status = "success"

\* C2: health_check_all never fails as a whole; it returns one HealthStatus
\* per live instance, and a probe that raised is reported as
\* HealthStatus(healthy = false, status_code = 0).
C2_HealthCheckAllTotal ==
    fan.op = "health_check_all" =>
        /\ ~fan.out.raises
        /\ DOMAIN fan.out.value = Keys(active_registries)
        /\ \A id \in Keys(active_registries) :
              IF fan.beh[id].raises
              THEN /\ fan.out.value[id].healthy = FALSE
                   /\ fan.out.value[id].status_code = 0
              ELSE fan.out.value[id] = fan.beh[id].value

\* a probe raised on an instance visited before others, which are reported too
C2_Witness ==
    /\ fan.op = "health_check_all"
    /\ ~fan.out.raises
    /\ \E a, b \in Keys(active_registries) :
          /\ Pos(a) < Pos(b)
          /\ fan.beh[a].raises /\ ~fan.beh[b].raises
          /\ fan.out.value[a].status_code = 0
          /\ fan.out.value[b].healthy

\* C9: find_schema_across_registries never raises; its keys are exactly the
\* live instances whose get_latest_schema returned, each mapped to the schema
\* that instance returned.
C9_FindSchemaOmitsFailures ==
    fan.op = "find_schema_across_registries" =>
        /\ ~fan.out.raises
        /\ DOMAIN fan.out.value =
              {id \in Keys(active_registries) : ~fan.beh[id].raises}
        /\ \A id \in DOMAIN fan.out.value :
              fan.out.value[id] = fan.beh[id].value

\* the lookup failed on one instance and succeeded on a later one
C9_Witness ==
    /\ fan.op = "find_schema_across_registries"
    /\ ~fan.out.raises
    /\ \E a, b \in Keys(active_registries) :
          /\ Pos(a) < Pos(b)
          /\ fan.beh[a].raises /\ ~fan.beh[b].raises
          /\ a \notin DOMAIN fan.out.value
          /\ b \in DOMAIN fan.out.value

\* C10: compare_compatibility_modes returns one entry per live instance: an
\* {error} entry (no global/subjects fields) when get_compatibility_mode or
\* get_all_compatibility_modes raised, else the {global, subjects} entry.
C10_CompareModesIsolation ==
    fan.op = "compare_compatibility_modes" =>
        /\ ~fan.out.raises
        /\ DOMAIN fan.out.value = Keys(active_registries)
        /\ \A id \in Keys(active_registries) :
              LET b == fan.beh[id]
                  entry == fan.out.value[id]
              IN IF b.global.raises
                 THEN entry = [error |-> b.global.value]
                 ELSE IF b.all.raises
                 THEN entry = [error |-> b.all.value]
                 ELSE /\ DOMAIN entry = {"global", "subjects"}
                      /\ entry.global = b.global.value
                      /\ entry.subjects = b.all.value

\* each of the two calls raised on some instance, and a later instance
\* still has its modes listed
C10_Witness ==
    /\ fan.op = "compare_compatibility_modes"
    /\ ~fan.out.raises
    /\ \E a, b, c \in Keys(active_registries) :
          /\ Pos(a) < Pos(c) /\ Pos(b) < Pos(c)
          /\ fan.beh[a].global.raises
          /\ ~fan.beh[b].global.raises /\ fan.beh[b].all.raises
          /\ ~fan.beh[c].global.raises /\ ~fan.beh[c].all.raises
          /\ DOMAIN fan.out.value[a] = {"error"}
          /\ DOMAIN fan.out.value[b] = {"error"}
          /\ fan.out.value[c].global = "BACKWARD"

-----------------------------------------------------------------------------
(* Claims about the per-subject transitive check (SpecSubject) *)

\* the call returned after list_versions gave at least two versions and the
\* latest schema was fetched: the per-version loop ran
LoopRan ==
    /\ check.op = "return"
    /\ ~check.world.list_versions.raises
    /\ Len(check.world.list_versions.value) >= MinVersions
    /\ ~check.world.get_schema.raises

PriorVersions == Front(check.world.list_versions.value)

\* what registry.check_compatibility did for a prior version
CheckOutcome(version) == ConfluentCheckCompatibility(check.world.check[version])

InSeq(x, seq) == \E k \in 1..Len(seq) : seq[k] = x

\* C5: a result with is_compatible = false never carries the message
\* "All versions compatible", also when the backend reported a prior version
\* incompatible without any message.
C5_AllCompatibleOnlyWhenCompatible ==
    check.op = "return" =>
        (~check.result.is_compatible =>
            ~InSeq(AllCompatibleMsg, check.result.messages))

\* C6: when the latest schema is incompatible with exactly one prior version
\* (check_compatibility returned is_compatible = false with messages M) and
\* compatible with all others, the result is incompatible and its message
\* list contains every message of M.
C6_SingleFailureReported ==
    LoopRan =>
        \A k \in 1..Len(PriorVersions) :
            LET vk == PriorVersions[k]
            IN (/\ ~CheckOutcome(vk).raises
                /\ ~CheckOutcome(vk).value.is_compatible
                /\ \A j \in 1..Len(PriorVersions) :
                      j # k => /\ ~CheckOutcome(PriorVersions[j]).raises
                               /\ CheckOutcome(PriorVersions[j]).value.is_compatible)
               => /\ ~check.result.is_compatible
                  /\ \A m \in 1..Len(CheckOutcome(vk).value.messages) :
                        InSeq(CheckOutcome(vk).value.messages[m],
                              check.result.messages)

\* three prior versions, only the middle one incompatible, with a message
\* that names it and is in the result
C6_Witness ==
    /\ LoopRan
    /\ Len(PriorVersions) = 3
    /\ \A k \in 1..3 : ~CheckOutcome(PriorVersions[k]).raises
    /\ CheckOutcome(PriorVersions[1]).value.is_compatible
    /\ CheckOutcome(PriorVersions[3]).value.is_compatible
    /\ ~CheckOutcome(PriorVersions[2]).value.is_compatible
    /\ CheckOutcome(PriorVersions[2]).value.messages # <<>>
    /\ ~check.result.is_compatible
    /\ check.result.messages = CheckOutcome(PriorVersions[2]).value.messages

\* the versions check_compatibility was called for, in call order
RECURSIVE CheckedVersions(_)
CheckedVersions(calls) ==
    IF calls = <<>> THEN <<>>
    ELSE IF Head(calls).op = "check_compatibility"
    THEN <<Head(calls).version>> \o CheckedVersions(Tail(calls))
    ELSE CheckedVersions(Tail(calls))

\* C7: a check_compatibility call that raises for prior version vk makes the
\* verdict incompatible and adds a synthesized message naming vk, and
\* check_compatibility is called exactly once for each of the N-1 prior
\* versions whatever the outcomes.
C7_RaisingCheckContinues ==
    LoopRan =>
        /\ CheckedVersions(check.calls) = PriorVersions
        /\ \A k \in 1..Len(PriorVersions) :
              CheckOutcome(PriorVersions[k]).raises =>
                 /\ ~check.result.is_compatible
                 /\ check.result.errors = <<>>
                 /\ InSeq(CheckFailedMsg(PriorVersions[k],
                                         CheckOutcome(PriorVersions[k]).value),
                          check.result.messages)

\* the check of the first of three prior versions raised and the two after
\* it were still made
C7_Witness ==
    /\ LoopRan
    /\ Len(PriorVersions) = 3
    /\ CheckOutcome(PriorVersions[1]).raises
    /\ ~CheckOutcome(PriorVersions[2]).raises
    /\ Len(CheckedVersions(check.calls)) = 3
    /\ ~check.result.is_compatible
    /\ check.result.messages[1].version = PriorVersions[1]

\* C8: with fewer than 2 versions listed the result is compatible with empty
\* errors, and neither get_schema_by_subject_version nor check_compatibility
\* is called.
C8_FewVersionsTrivial ==
    (/\ check.op = "return"
     /\ ~check.world.list_versions.raises
     /\ Len(check.world.list_versions.value) < 2)
    => /\ check.result.is_compatible
       /\ check.result.errors = <<>>
       /\ \A k \in 1..Len(check.calls) : check.calls[k].op = "list_versions"

\* a single version whose schema could not even be fetched: still compatible
C8_Witness ==
    /\ check.op = "return"
    /\ ~check.world.list_versions.raises
    /\ Len(check.world.list_versions.value) = 1
    /\ check.world.get_schema.raises
    /\ check.result.is_compatible
    /\ Len(check.calls) = 1

-----------------------------------------------------------------------------
(* Claims about bulk_check_compatibility (SpecBulk) *)

\* the registries of the call that are live, and those of them whose
\* list_subjects raised
Requested ==
    {id \in DOMAIN bulk.backends : Get(active_registries, id) # None}
FailedListings == {id \in Requested : bulk.backends[id].list_subjects.raises}

\* the result records of one (registry, subject) pair
RecordsOf(id, subject) ==
    {k \in 1..Len(bulk.out.value.results) :
        /\ bulk.out.value.results[k].registry_id = id
        /\ bulk.out.value.results[k].subject = subject}

RecordsWhere(P(_)) ==
    {k \in 1..Len(bulk.out.value.results) : P(bulk.out.value.results[k])}

IsCompatibleRecord(r) == r.is_compatible
HasErrors(r) == r.errors # <<>>
IncompatibleNoErrors(r) == ~r.is_compatible /\ r.errors = <<>>

C4_SubjectFailureCountedAsError ==
    bulk.op = "return" =>
        /\ ~bulk.out.raises
        /\ bulk.out.value.errors =
              Cardinality(FailedListings) + Cardinality(RecordsWhere(HasErrors))
        /\ bulk.out.value.incompatible =
              Cardinality(RecordsWhere(IncompatibleNoErrors))
        /\ \A id \in Requested \ FailedListings :
              \A k \in 1..Len(Listed(bulk.backends[id])) :
                 Cardinality(RecordsOf(id, Listed(bulk.backends[id])[k])) = 1

\* the (registry, subject) tasks submitted by the call
SubmittedTasks ==
    UNION {{<<id, k>> : k \in 1..Len(Listed(bulk.backends[id]))} :
           id \in Requested \ FailedListings}

\* the call's result had every registry's futures completed in the order
\* they were submitted
InSubmissionOrder ==
    BulkCheck(bulk.registry_ids, bulk.backends,
              [id \in DOMAIN bulk.backends |-> Listed(bulk.backends[id])],
              bulk.target_mode).value

\* C12: whatever the order in which the futures complete, total_checked is
\* the number of result records and the number of submitted tasks,
\* compatible + incompatible + errors is total_checked plus the number of
\* registries whose listing failed, and the four counters are the ones the
\* submission order gives: no increment is lost.
C12_CountersExactForEveryOrder ==
    bulk.op = "return" =>
        LET out == bulk.out.value
        IN /\ out.total_checked = Len(out.results)
           /\ out.total_checked = Cardinality(SubmittedTasks)
           /\ out.compatible + out.incompatible + out.errors =
                 out.total_checked + Cardinality(FailedListings)
           /\ out.compatible = InSubmissionOrder.compatible
           /\ out.incompatible = InSubmissionOrder.incompatible
           /\ out.errors = InSubmissionOrder.errors
           /\ out.total_checked = InSubmissionOrder.total_checked

\* r1's second subject completes before its first, r2's listing fails, and
\* r3 has two compatible subjects, so that compatible is incremented twice
C12_Witness ==
    /\ bulk.op = "return"
    /\ bulk.registry_ids = <<"r1", "r2", "r3">>
    /\ Listed(bulk.backends["r1"]) = <<"s1", "s2">>
    /\ bulk.order["r1"] = <<"s2", "s1">>
    /\ bulk.out.value.results[1].subject = "s2"
    /\ bulk.out.value.results[1].is_compatible
    /\ ~bulk.out.value.results[2].is_compatible
    /\ FailedListings = {"r2"}
    /\ Len(Listed(bulk.backends["r3"])) = 2
    /\ bulk.out.value.compatible = 3
    /\ bulk.out.value.incompatible = 1
    /\ bulk.out.value.errors = 1
    /\ bulk.out.value.total_checked = 4

-----------------------------------------------------------------------------
(* Claims about bulk_set_compatibility (SpecBulkSet) *)

\* the status the loop body records for one set_compatibility_mode outcome
StatusOf(outcome) ==
    IF outcome.raises THEN ErrorStatus(outcome.value)
    ELSE SetStatus(outcome.value)

\* C11: with a subject filter, every live registry named in registry_ids has
\* an entry; a registry whose listing raised has the single entry error, and
\* any other registry has, for every subject it listed, exactly the status of
\* that subject's own set_compatibility_mode call: success, failed, or
\* error: <detail>.  Ids that are not live have no entry.
C11_BulkSetIsolation ==
    (bulk.op = "set_return" /\ bulk.subject_filter # "") =>
        /\ DOMAIN bulk.out = Requested
        /\ \A id \in DOMAIN bulk.out :
              LET b == bulk.backends[id]
              IN IF b.list_subjects.raises
                 THEN bulk.out[id] = Put(EmptyDict, "error",
                                         <<b.list_subjects.value>>)
                 ELSE /\ DOMAIN bulk.out[id] =
                            {b.list_subjects.value[k] :
                                k \in 1..Len(b.list_subjects.value)}
                      /\ \A s \in DOMAIN bulk.out[id] :
                            /\ bulk.out[id][s] = StatusOf(b.set_mode[s])
                            /\ \/ bulk.out[id][s] \in {<<"success">>, <<"failed">>}
                               \/ bulk.out[id][s][1] = "error: "

\* r1's listing raises; r2, named after it, lists s1 and s2; the call for s1
\* raises and the call for s2, made after it, succeeds
C11_Witness ==
    /\ bulk.op = "set_return"
    /\ bulk.subject_filter # ""
    /\ bulk.registry_ids = <<"r1", "r2", "r3">>
    /\ bulk.backends["r1"].list_subjects.raises
    /\ bulk.backends["r2"].list_subjects = Returns(<<"s1", "s2">>)
    /\ bulk.backends["r2"].set_mode["s1"].raises
    /\ bulk.backends["r2"].set_mode["s2"] = Returns(TRUE)
    /\ bulk.backends["r3"].list_subjects = Returns(<<"s1">>)
    /\ bulk.backends["r3"].set_mode["s1"] = Returns(FALSE)
    /\ bulk.out["r2"]["s2"] = <<"success">>
    /\ bulk.out["r3"]["s1"] = <<"failed">>

-----------------------------------------------------------------------------
(* Claims about the Unity Catalog plugin (SpecUnity) *)

\* a check_compatibility call that reached the evolution check has returned
EvolutionRan ==
    /\ check.op = "unity_return"
    /\ check.method = "check_compatibility"
    /\ ~check.latest.raises
    /\ ~check.content.raises
    /\ ~EvolutionRaises(check.latest.value, check.content.value)

\* the field with the given id in a "fields" list that holds it once
FieldAt(fields, id) == fields[CHOOSE k \in 1..Len(fields) : fields[k].id = id]

FieldIdsOf(fields) == {fields[k].id : k \in 1..Len(fields)}

\* (1) a field required in old is absent from new
RequiredRemoved(old, new) ==
    \E id \in FieldIdsOf(old) \ FieldIdsOf(new) : Required(FieldAt(old, id))

\* (2) a common field changed its type outside the three safe promotions
UnsafeTypeChange(old, new) ==
    \E id \in FieldIdsOf(old) \cap FieldIdsOf(new) :
        /\ FieldAt(old, id).type # FieldAt(new, id).type
        /\ <<FieldAt(old, id).type, FieldAt(new, id).type>> \notin
              {<<"int", "long">>, <<"float", "double">>, <<"date", "timestamp">>}

\* (3) a common field went from not required to required
BecameRequired(old, new) ==
    \E id \in FieldIdsOf(old) \cap FieldIdsOf(new) :
        ~Required(FieldAt(old, id)) /\ Required(FieldAt(new, id))

WithoutField(fields, k) ==
    [j \in 1..(Len(fields) - 1) |-> IF j < k THEN fields[j] ELSE fields[j + 1]]

\* C14: a field of new whose id is not in old does not count: the verdict
\* and the messages are those of the check against new without that field,
\* whether the field is required or not.
C14_AdditionsIgnored ==
    EvolutionRan =>
        \A k \in 1..Len(check.content.value) :
            check.content.value[k].id \notin FieldIdsOf(check.latest.value) =>
                LET r == CheckIcebergEvolution(
                            check.latest.value,
                            WithoutField(check.content.value, k))
                IN /\ check.result.value.is_compatible = r.is_compatible
                   /\ check.result.value.messages = r.messages

\* new holds old's only field with an unsafe type change and a required
\* field whose id is not in old
C14_Witness ==
    /\ EvolutionRan
    /\ FieldIdsOf(check.latest.value) = {1}
    /\ FieldIdsOf(check.content.value) = {1, 2}
    /\ Required(FieldAt(check.content.value, 2))
    /\ UnsafeTypeChange(check.latest.value, check.content.value)
    /\ ~check.result.value.is_compatible
    /\ Len(check.result.value.messages) = 1

\* C15: a CompatibilityResult of check_compatibility carries errors only
\* when the check itself failed (get_latest_schema or the parse raised); a
\* check that ran to its end and found the schema incompatible has
\* is_compatible = FALSE and no errors.
C15_ErrorsOnlyWhenCheckFailed ==
    (check.op = "unity_return" /\ check.method = "check_compatibility") =>
        /\ check.result.value.errors # <<>> =>
              (check.latest.raises \/ check.content.raises)
        /\ (EvolutionRan /\ ~check.result.value.is_compatible) =>
              check.result.value.errors = <<>>

\* C19: an operation on a subject that does not exist (get_latest_schema
\* raises KeyError) raises KeyError: list_versions does not return a
\* version list and check_compatibility does not return a verdict.
C19_MissingSubjectRaisesNotFound ==
    (check.op = "unity_return" /\ check.latest.raises
        /\ check.latest.value = "KeyError") =>
        (check.result.raises /\ check.result.value = "KeyError")

-----------------------------------------------------------------------------
(* Claims about the instance maps (SpecFan) *)

\* C16: an instance is held by the orchestrator's live map only: an id that
\* is not in active_registries has no instance in the plugin registry's
\* table, so get_instance(id) is None after remove_registry(id).
C16_NoInstanceOutsideLiveMap ==
    \A id \in DOMAIN instances : id \in Keys(active_registries)

\* C17: add_registry raises the unknown-type error exactly for a config whose
\* type has no registered plugin, and the raising call leaves the plugin
\* registry's type map and instance table and the orchestrator's live map as
\* they were, the instance stored under the same id included.
C17_UnknownTypeChangesNothing ==
    [][fan'.op = "add_registry" =>
          /\ fan'.out.raises <=> (fan'.arg.type \notin plugins)
          /\ fan'.out.raises =>
                /\ fan'.out.value = "No plugin registered"
                /\ plugins' = plugins
                /\ instances' = instances
                /\ active_registries' = active_registries
                /\ created' = created]_vars

\* the failed call named an id that has a live instance
C17_Witness ==
    /\ fan.op = "add_registry"
    /\ fan.out.raises
    /\ fan.arg.type = "aws_glue"
    /\ fan.arg.id \in Keys(active_registries)
    /\ fan.arg.id \in DOMAIN instances
    /\ instances[fan.arg.id] = Get(active_registries, fan.arg.id)

\* C18: a successful add_registry(c) makes get_registry(c.id) the instance
\* just built from c and leaves every other id alone, with one entry per id;
\* remove_registry(id) raises nothing, makes get_registry(id) None, leaves
\* every other id alone, and changes nothing when id was absent.
C18_IdsNeverAlias ==
    [][/\ (fan'.op = "add_registry" /\ ~fan'.out.raises) =>
            /\ Get(active_registries', fan'.arg.id) =
                  [type |-> fan'.arg.type, serial |-> created + 1]
            /\ \A id \in RegistryIds \ {fan'.arg.id} :
                  Get(active_registries', id) = Get(active_registries, id)
            /\ Len(active_registries') = Cardinality(Keys(active_registries'))
       /\ fan'.op = "remove_registry" =>
            /\ ~fan'.out.raises
            /\ Get(active_registries', fan'.arg) = None
            /\ \A id \in RegistryIds \ {fan'.arg} :
                  Get(active_registries', id) = Get(active_registries, id)
            /\ Len(active_registries') = Cardinality(Keys(active_registries'))
            /\ fan'.arg \notin Keys(active_registries) =>
                  active_registries' = active_registries]_vars

\* three instances were built and two ids are live: r1 holds the third one
\* and stands after r2, so an earlier instance was replaced or removed
C18_Witness ==
    /\ fan.op = "add_registry"
    /\ ~fan.out.raises
    /\ fan.arg.id = "r1"
    /\ Len(active_registries) = 2
    /\ active_registries[1].id = "r2"
    /\ active_registries[2] = [id |-> "r1",
                               inst |-> [type |-> "confluent", serial |-> 3]]

-----------------------------------------------------------------------------
(* Claims about the schema format of a request (SpecFormat) *)

\* C20: register_schema and check_compatibility reject a format outside
\* get_supported_formats() with the unsupported-format error before any
\* request is sent, and reject no format inside it as unsupported.
C20_UnsupportedFormatRejected ==
    check.op = "plugin_return" =>
        IF check.schema_format \notin SupportedFormats(check.plugin)
        THEN /\ check.out.raises
             /\ check.out.value = UnsupportedFormat
             /\ check.sent = <<>>
        ELSE ~(check.out.raises /\ check.out.value = UnsupportedFormat)

-----------------------------------------------------------------------------
(* Claims about health_check and get_all_compatibility_modes (SpecPlugin) *)

\* C21: health_check never raises: for every exception of the request it
\* returns a HealthStatus with healthy = FALSE whose message holds the
\* exception's text.
C21_HealthCheckNeverRaises ==
    check.op = "health_return" =>
        /\ ~check.out.raises
        /\ check.response # "ok" =>
              /\ ~check.out.value.healthy
              /\ InSeq(HealthError(check.response), check.out.value.message)

\* C22: get_all_compatibility_modes has an entry only for a subject with a
\* subject-level config: a subject whose config request is answered 404 is
\* not in the returned map.
C22_OverridesOnly ==
    check.op = "modes_return" =>
        \A subject \in DOMAIN check.out.value :
            check.configs[subject].kind = "ok"

-----------------------------------------------------------------------------
(* Claims about the transition-risk table (SpecTransitions) *)

SingleDirection ==
    {"BACKWARD", "BACKWARD_TRANSITIVE", "FORWARD", "FORWARD_TRANSITIVE"}
BackwardModes == {"BACKWARD", "BACKWARD_TRANSITIVE"}
ForwardModes == {"FORWARD", "FORWARD_TRANSITIVE"}
TransitiveModes == {"BACKWARD_TRANSITIVE", "FORWARD_TRANSITIVE", "FULL_TRANSITIVE"}

\* the scope goes from latest-only to transitive
Tightens(from_mode, to_mode) ==
    from_mode \notin TransitiveModes /\ to_mode \in TransitiveModes

\* C23: a transition from a single-direction mode to FULL or FULL_TRANSITIVE
\* is DANGEROUS when the scope tightens from latest-only to transitive in
\* the same step and RISKY when it does not.
C23_AddedDirectionRisk ==
    (check.op = "matrix_return" /\ check.from_mode \in SingleDirection
        /\ check.to_mode \in {"FULL", "FULL_TRANSITIVE"}) =>
        check.cell = IF Tightens(check.from_mode, check.to_mode)
                     THEN "DANGEROUS" ELSE "RISKY"

\* the transition turns a backward mode into a forward mode or the reverse
Reverses(from_mode, to_mode) ==
    \/ from_mode \in BackwardModes /\ to_mode \in ForwardModes
    \/ from_mode \in ForwardModes /\ to_mode \in BackwardModes

\* C24: every transition that reverses the direction is in the table as
\* DANGEROUS with requires_validation = TRUE.
C24_ReversalDangerous ==
    (check.op = "matrix_return" /\ Reverses(check.from_mode, check.to_mode)) =>
        /\ check.transition # None
        /\ check.transition.value[3] = "DANGEROUS"
        /\ check.transition.value[4] = TRUE
        /\ check.cell = "DANGEROUS"

\* FORWARD_TRANSITIVE -> BACKWARD_TRANSITIVE has been looked up
C24_Witness ==
    /\ check.op = "matrix_return"
    /\ check.from_mode = "FORWARD_TRANSITIVE"
    /\ check.to_mode = "BACKWARD_TRANSITIVE"
    /\ check.cell = "DANGEROUS"

\* the rows of the table for one ordered pair
RowsFor(from_mode, to_mode) ==
    {k \in 1..Len(COMPATIBILITY_TRANSITIONS) :
        /\ COMPATIBILITY_TRANSITIONS[k][1] = from_mode
        /\ COMPATIBILITY_TRANSITIONS[k][2] = to_mode}

\* C25: the table has 42 rows, one for each ordered pair of distinct modes
\* among the 7, each with a risk of SAFE, RISKY or DANGEROUS, and every row
\* passes the assertions of its test case; the matrix has N/A at the self
\* pairs, a risk level at every other pair, and "?" nowhere.
C25_TableComplete ==
    /\ (check.op = "matrix_return" /\ check.from_mode \in MatrixModes
           /\ check.to_mode \in MatrixModes) =>
          /\ Len(COMPATIBILITY_TRANSITIONS) = 42
          /\ check.cell # "?"
          /\ check.from_mode = check.to_mode =>
                /\ check.cell = "N/A"
                /\ RowsFor(check.from_mode, check.to_mode) = {}
          /\ check.from_mode # check.to_mode =>
                /\ check.cell \in RiskLevels
                /\ Cardinality(RowsFor(check.from_mode, check.to_mode)) = 1
    /\ check.op = "case_return" =>
          /\ check.passed
          /\ check.row[1] # check.row[2]

\* a self pair has been filled with N/A
C25_Witness ==
    /\ check.op = "matrix_return"
    /\ check.from_mode = "FULL"
    /\ check.to_mode = "FULL"
    /\ check.cell = "N/A"

C27_ConcurrentFanOutReturns ==
    fan.op = "fan_return" =>
        /\ ~fan.out.raises
        /\ fan.name # "find_schema_across_registries" =>
              \A id \in fan.stable : id \in DOMAIN fan.out.value

\* C28: check_compatibility of the Unity Catalog plugin returns the verdict
\* compatible with the message "New table - no compatibility check needed"
\* only when the subject's table does not exist; with an existing table and
\* a malformed schema the result is not that verdict.
C28_NewTableOnlyWhenMissing ==
    (check.op = "unity_return" /\ check.method = "check_compatibility") =>
        ((check.result.value.is_compatible
            /\ check.result.value.messages = <<NewTableMsg>>) =>
         (check.latest.raises /\ check.latest.value = "KeyError"))

-----------------------------------------------------------------------------
(* Claims about the worker pool of bulk_check_compatibility (SpecPool,     *)
(* SpecPoolLive)                                                           *)

\* the positions in registry_ids of the records of all_results
RecordPositions ==
    {<<a, b>> \in (1..Len(bulk.all_results)) \X (1..Len(bulk.all_results)) : a < b}

\* the tasks that have been submitted and are not completed
Unfinished == {bulk.queue[k] : k \in 1..Len(bulk.queue)} \cup bulk.running

\* C29: the registries of one call are processed one after another: while a
\* task of a registry is submitted and not yet collected, every task of the
\* registries before it in registry_ids has completed and been collected,
\* and no task of a later registry has been submitted; so the records of
\* all_results are grouped by registry, in the order of registry_ids.  The
\* records of one registry come in the order in which its tasks complete.
C29_RegistriesOneAfterAnother ==
    bulk.op \in {"pool_futures", "pool_return"} =>
        /\ \A task \in bulk.submitted :
              /\ task[1] <= bulk.i
              /\ task[1] < bulk.i => task \in bulk.collected
        /\ \A task \in Unfinished \cup bulk.done : task[1] = bulk.i
        /\ Len(bulk.all_results) = Cardinality(bulk.collected)
        /\ \E groups \in [1..Len(bulk.all_results) -> 1..Len(bulk.registry_ids)] :
              /\ \A n \in DOMAIN groups :
                    /\ bulk.all_results[n].registry_id = bulk.registry_ids[groups[n]]
                    /\ Cardinality({m \in DOMAIN groups : groups[m] = groups[n]})
                         = Cardinality({t \in bulk.collected : t[1] = groups[n]})
              /\ \A pair \in RecordPositions : groups[pair[1]] <= groups[pair[2]]

\* the second subject of the second registry has been collected while the
\* first is still running, after both subjects of the first registry
C29_Witness ==
    /\ bulk.op = "pool_futures"
    /\ bulk.i = 2
    /\ bulk.collected = {<<1, 1>>, <<1, 2>>, <<2, 2>>}
    /\ <<2, 1>> \in bulk.running
    /\ Len(bulk.all_results) = 3
    /\ bulk.all_results[3].registry_id = bulk.registry_ids[2]

\* the pool never runs more than max_workers checks at once, and when the
\* call has returned every submitted task has completed and been collected
\* exactly once and none is queued or running
PoolSafe ==
    /\ Cardinality(bulk.running) <= max_workers
    /\ bulk.collected \subseteq bulk.submitted
    /\ bulk.total_checked = Cardinality(bulk.collected)
    /\ Len(bulk.all_results) = bulk.total_checked
    /\ bulk.op = "pool_return" =>
          /\ bulk.collected = bulk.submitted
          /\ Unfinished = {}
          /\ bulk.done = {}

\* C30: if every backend call returns or raises in the end,
\* bulk_check_compatibility returns in the end, also for a registry with
\* more subjects than the pool has threads; at no time do more than
\* max_workers checks run at once, every submitted task completes and is
\* collected exactly once, and no task is running when the call returns.
C30_BulkCheckTerminates ==
    /\ []PoolSafe
    /\ <>(bulk.op = "pool_return")

\* the pool is full: max_workers tasks of one registry are running and the
\* task after them waits in the queue
C30_Witness ==
    /\ bulk.op = "pool_futures"
    /\ Cardinality(bulk.running) = max_workers
    /\ bulk.queue = <<<<1, max_workers + 1>>>>
    /\ bulk.collected = {}

=============================================================================
